---- MODULE Spec2Model ----
(***************************************************************************)
(* Model of the symbol-search automation server                            *)
(* (src/llm_automation_server.py) and of the keyword path builder          *)
(* (src/llm_chat_backend.py).                                              *)
(*                                                                         *)
(* Strings are sequences of one-character strings, so that strip(),        *)
(* lower(), substring containment and startswith() are computed.           *)
(* A JSON value that the code probes with .get()/isinstance() is a record  *)
(* with explicit tags (isDict, tag) standing for the Python type it has.   *)
(***************************************************************************)
EXTENDS Integers, Sequences, FiniteSets, TLC

VARIABLES
    PROJECT,    \* the module-level global PROJECT (llm_automation_server.py:34)
    loaded,     \* TRUE once read_initial_project_from_stdin() has returned
    doc,        \* the document that was on stdin (kept to state the claims)
    req,        \* the last GET request handled
    resp,       \* what the handler answered to it
    tree,       \* input of build_paths_from_tree
    paths,      \* its result
    keywords,   \* input of build_keyword_paths
    phrases,    \* its result
    conns,      \* the clients' connections: request sent, response received
    backlog,    \* connections waiting in the listening socket's queue
    handler,    \* the RequestHandler instance serving a connection, if any
    chat,       \* llm_chat_backend.main: where it is and its local variables
    stdout,     \* what main has written to sys.stdout
    search      \* automation_search_with_keywords: arguments, loop, results

flatVars == <<keywords, phrases>>
connVars == <<conns, backlog, handler>>
chatVars == <<chat, stdout>>
restVars == <<flatVars, connVars, chatVars, search>>
vars == <<PROJECT, loaded, doc, req, resp, tree, paths, restVars>>

(***************************************************************************)
(* Bounds of the model.                                                    *)
(***************************************************************************)
MaxModules == 2      \* modules in a snapshot's Modules list
MaxK == 3            \* small maxResults values tried: -1 .. MaxK
MaxNodes == 3        \* nodes in a keyword tree
MaxKeywords == 3     \* keywords in a flat keyword list
MaxClients == 2      \* clients with a request in flight at the same time
MaxTotal == 2        \* largest max_total_results tried

(***************************************************************************)
(* Program constants.                                                      *)
(***************************************************************************)
DefaultMaxResults == 500   \* "max_results or 500", int(... or "500")
MaxResultsCap == 500       \* min(..., 500)
MinResultsCap == 1         \* max(1, ...)
MaxReasons == 10           \* if len(reasons) >= 10: break

(***************************************************************************)
(* Strings.                                                                *)
(***************************************************************************)
Min(S) == CHOOSE x \in S : \A y \in S : x <= y
Max(S) == CHOOSE x \in S : \A y \in S : x >= y
Range(s) == {s[i] : i \in DOMAIN s}

\* str.lower() on the characters the model uses
LowerChar(c) ==
    CASE c = "T" -> "t" [] c = "U" -> "u" [] c = "N" -> "n" [] c = "M" -> "m"
      [] c = "V" -> "v" [] c = "W" -> "w" [] c = "A" -> "a" [] c = "B" -> "b"
      [] c = "S" -> "s" [] c = "P" -> "p" [] c = "H" -> "h" [] c = "F" -> "f"
      [] c = "X" -> "x"
      [] OTHER -> c
Lower(s) == [i \in 1..Len(s) |-> LowerChar(s[i])]

\* str.isupper() of one character
IsUpperChar(c) == LowerChar(c) # c

Whitespace == {" "}

\* s.lstrip(chars), s.strip(chars), s.strip()
LStripChars(s, cs) ==
    LET keep == {i \in 1..Len(s) : s[i] \notin cs}
    IN  IF keep = {} THEN <<>> ELSE SubSeq(s, Min(keep), Len(s))
StripChars(s, cs) ==
    LET keep == {i \in 1..Len(s) : s[i] \notin cs}
    IN  IF keep = {} THEN <<>> ELSE SubSeq(s, Min(keep), Max(keep))
Strip(s) == StripChars(s, Whitespace)

\* Python's "sub in s"
Contains(sub, s) ==
    \E i \in 0..(Len(s) - Len(sub)) : SubSeq(s, i + 1, i + Len(sub)) = sub
\* s.startswith(p)
StartsWith(s, p) == Len(p) <= Len(s) /\ SubSeq(s, 1, Len(p)) = p

\* " ".join(parts)
RECURSIVE JoinSpace(_)
JoinSpace(parts) ==
    IF parts = <<>> THEN <<>>
    ELSE IF Len(parts) = 1 THEN parts[1]
    ELSE parts[1] \o <<" ">> \o JoinSpace(Tail(parts))

\* concatenation of a sequence of sequences
RECURSIVE Flatten(_)
Flatten(ss) == IF ss = <<>> THEN <<>> ELSE Head(ss) \o Flatten(Tail(ss))

(***************************************************************************)
(* Regular expressions: re.compile(pattern, re.IGNORECASE) and             *)
(* regex.search(s), for three shapes of pattern text:                      *)
(*   "sub"      an escaped literal: search is case-insensitive containment *)
(*              (an empty literal, as in "()" or "x*", matches anything)   *)
(*   "anchored" ^literal$ : the whole string, case-insensitively           *)
(*   "invalid"  text re.compile rejects, as "("                            *)
(* "missing" is the absent or empty pattern parameter.                     *)
(***************************************************************************)
CompileFails(pattern) == pattern.kind = "invalid"
RegexSearch(pattern, s) ==
    IF pattern.kind = "anchored" THEN Lower(s) = Lower(pattern.lit)
    ELSE Contains(Lower(pattern.lit), Lower(s))

(***************************************************************************)
(* The snapshot document: JSON values as the code sees them.               *)
(*   a list-valued key is [tag, items]: tag "list", "absent" (no key),     *)
(*   "null" (None or another falsy value, which "or []" replaces) or       *)
(*   "scalar" (a truthy value that is no list of records);                 *)
(*   isDict tells a JSON object from any other value;                      *)
(*   a string-valued key holds its text, "" when absent or null.           *)
(***************************************************************************)
str_ == <<>>
sT == <<"T">>
sU == <<"U">>
sN == <<"N">>
sM == <<"M">>
sV == <<"V">>
sW == <<"W">>
sX == <<"X">>
sTU == <<"T", "U">>
sNT == <<"N", ".", "T">>
sNU == <<"N", ".", "U">>
sNTU == <<"N", ".", "T", "U">>
sMV == <<"M", ".", "V">>
sMW == <<"M", ".", "W">>
slowT == <<"t">>
slowNT == <<"n", ".", "t">>
sPadT == <<" ", "T", " ">>

ListOf(items) == [tag |-> "list", items |-> items]
NoList(tag) == [tag |-> tag, items |-> <<>>]

Member(name, full, sig, mtype) ==
    [isDict |-> TRUE, Name |-> name, FullName |-> full, Signature |-> sig,
     MemberType |-> mtype]
NonDictMember ==
    [isDict |-> FALSE, Name |-> str_, FullName |-> str_, Signature |-> str_,
     MemberType |-> str_]

Type(name, full, base, src, fields, methods, properties, events) ==
    [isDict |-> TRUE, Name |-> name, FullName |-> full, BaseType |-> base,
     SourceFilePath |-> src, Fields |-> fields, Methods |-> methods,
     Properties |-> properties, Events |-> events]
NonDictType ==
    [isDict |-> FALSE, Name |-> str_, FullName |-> str_, BaseType |-> str_,
     SourceFilePath |-> str_, Fields |-> <<>>, Methods |-> <<>>,
     Properties |-> <<>>, Events |-> <<>>]

Module(name, asmFull, asmPath, modPath, fileName, types) ==
    [isDict |-> TRUE, Name |-> name, AssemblyFullName |-> asmFull,
     AssemblyPath |-> asmPath, ModuleFilePath |-> modPath,
     FileName |-> fileName, Types |-> types]
NonDictModule ==
    [isDict |-> FALSE, Name |-> str_, AssemblyFullName |-> str_,
     AssemblyPath |-> str_, ModuleFilePath |-> str_, FileName |-> str_,
     Types |-> NoList("absent")]

\* members
mFieldT == Member(<<"f">>, <<"N", ".", "U", ".", "f">>, <<"T", " ", "f">>, <<"F">>)
mMethT == Member(<<"g">>, <<"N", ".", "U", ".", "g">>, <<"T", " ", "g">>, <<"M">>)
mMethU == Member(<<"h">>, <<"N", ".", "U", ".", "h">>, <<"U", " ", "h">>, <<"M">>)
mPropBare == Member(<<"p">>, str_, str_, str_)
mEventFull == Member(<<"e">>, <<"e", ".", "N", ".", "T">>, str_, str_)
mSelf == Member(<<"c">>, <<"N", ".", "T", ".", "c">>, <<"T", " ", "c">>, <<"M">>)
mLowSig == Member(str_, str_, <<" ", "t", " ", "k">>, <<"M">>)

\* types
tyT == Type(sT, sNT, str_, <<"s">>, <<>>, <<mSelf>>, <<>>, <<>>)
tyU ==
    Type(sU, sNU, sNT, str_, <<NonDictMember, mFieldT>>, <<mMethU, mMethT>>,
         <<mPropBare>>, <<mEventFull>>)
tyTU == Type(sTU, sNTU, str_, str_, <<>>, <<mMethT>>, <<>>, <<>>)
tyT0 == Type(sT, str_, str_, str_, <<>>, <<mSelf>>, <<>>, <<>>)
tyV == Type(sV, sMV, slowNT, <<"s">>, <<>>, <<mLowSig>>, <<>>, <<>>)
tyW ==
    Type(sW, sMW, sNT, str_, [i \in 1..MaxReasons |-> mFieldT], <<mMethT>>,
         <<>>, <<>>)
tyLow == Type(slowT, slowNT, str_, str_, <<>>, <<>>, <<>>, <<>>)

\* modules
ModulePool ==
    { Module(sN, str_, <<"a">>, <<"p">>, str_, ListOf(<<tyT, tyU>>)),
      Module(sM, sNT, str_, <<"p">>, <<"f">>, ListOf(<<tyTU, tyV>>)),
      Module(sPadT, str_, str_, str_, <<"f">>, ListOf(<<tyT0>>)),
      Module(sN, str_, str_, str_, str_, ListOf(<<tyLow, tyT>>)),
      Module(sM, str_, <<"a">>, str_, str_, ListOf(<<tyW>>)),
      Module(str_, str_, str_, str_, str_, NoList("null")),
      Module(sN, str_, str_, str_, str_, ListOf(<<tyU, NonDictType>>)),
      Module(sN, str_, str_, str_, str_, NoList("scalar")),
      NonDictModule }

SeqsUpTo(S, n) == UNION {[1..k -> S] : k \in 0..n}
ModuleLists == SeqsUpTo(ModulePool, MaxModules)

NoProject == [tag |-> "absent", Modules |-> NoList("absent")]
Root(isDict, modules, project) ==
    [isDict |-> isDict, Modules |-> modules, Project |-> project]
JsonDoc(root) == [kind |-> "json", root |-> root]
NoJson(kind) ==
    [kind |-> kind, root |-> Root(FALSE, NoList("absent"), NoProject)]

\* { "Modules": [...] }
DirectDocs == {JsonDoc(Root(TRUE, ListOf(ms), NoProject)) : ms \in ModuleLists}
\* { "Project": { "Modules": [...] } }
modN == Module(sN, str_, <<"a">>, <<"p">>, str_, ListOf(<<tyT, tyU>>))
modM == Module(sM, sNT, str_, <<"p">>, <<"f">>, ListOf(<<tyTU, tyV>>))
WrappedDocs ==
    {JsonDoc(Root(TRUE, NoList("absent"),
                  [tag |-> "dict", Modules |-> ListOf(ms)])) :
        ms \in {<<m>> : m \in ModulePool} \cup {<<modN, modM>>, <<modM, modN>>}}
\* everything else
OtherDocs ==
    { NoJson("tty"), NoJson("blank"), NoJson("garbage"),
      JsonDoc(Root(FALSE, NoList("absent"), NoProject)),
      JsonDoc(Root(TRUE, NoList("absent"), NoProject)),
      JsonDoc(Root(TRUE, NoList("null"), NoProject)),
      JsonDoc(Root(TRUE, NoList("scalar"), NoProject)),
      JsonDoc(Root(TRUE, NoList("absent"),
                   [tag |-> "scalar", Modules |-> NoList("absent")])),
      JsonDoc(Root(TRUE, NoList("absent"),
                   [tag |-> "dict", Modules |-> NoList("absent")])),
      JsonDoc(Root(TRUE, NoList("absent"),
                   [tag |-> "dict", Modules |-> NoList("scalar")])),
      JsonDoc(Root(TRUE, NoList("null"),
                   [tag |-> "dict", Modules |-> ListOf(<<NonDictModule>>)])) }
Docs == DirectDocs \cup WrappedDocs \cup OtherDocs

(***************************************************************************)
(* read_initial_project_from_stdin                                         *)
(***************************************************************************)
EmptyProject == [Modules |-> ListOf(<<>>)]
UnloadedProject == [Modules |-> NoList("absent")]     \* PROJECT = {}

\* a loader that knows the direct shape only
ReadInitialProjectDirectOnly(d) ==
    IF d.kind = "json" /\ d.root.isDict /\ d.root.Modules.tag # "absent"
    THEN [Modules |-> d.root.Modules]
    ELSE EmptyProject
ReadInitialProject(d) ==
    IF d.kind = "tty" THEN EmptyProject
    ELSE IF d.kind = "blank" THEN EmptyProject
    ELSE IF d.kind = "garbage" THEN EmptyProject
    ELSE IF d.root.isDict /\ d.root.Modules.tag # "absent"
         THEN [Modules |-> d.root.Modules]
    ELSE IF d.root.isDict /\ d.root.Project.tag = "dict"
         THEN [Modules |-> d.root.Project.Modules]
    ELSE EmptyProject

(***************************************************************************)
(* Field access: (x.get(key) or "").strip()                                *)
(***************************************************************************)
Get(x, key) == Strip(x[key])

\* PROJECT.get("Modules") or []   /   mod.get("Types") or []
OrEmpty(listValue) ==
    IF listValue.tag \in {"absent", "null"} THEN ListOf(<<>>) ELSE listValue

\* assembly_path: the first non-empty of three keys (lines 116-120, 190-194, 308-312)
AssemblyPathOf(mod) ==
    IF Get(mod, "AssemblyPath") # <<>> THEN Get(mod, "AssemblyPath")
    ELSE IF Get(mod, "ModuleFilePath") # <<>> THEN Get(mod, "ModuleFilePath")
    ELSE Get(mod, "FileName")

(***************************************************************************)
(* _iter_types: the (module, type) pairs in module-then-type order.  The    *)
(* generator raises (crash) when it meets a module that is no record or a  *)
(* Types value it cannot iterate; what it yielded before stays yielded.    *)
(***************************************************************************)
CrashItem == [crash |-> TRUE, m |-> 0, t |-> 0]

RECURSIVE IterTypesFrom(_, _)
IterTypesFrom(mods, mi) ==
    IF mi > Len(mods) THEN <<>>
    ELSE IF ~mods[mi].isDict THEN <<CrashItem>>
    ELSE IF OrEmpty(mods[mi].Types).tag = "scalar" THEN <<CrashItem>>
    ELSE [ti \in 1..Len(OrEmpty(mods[mi].Types).items) |->
              [crash |-> FALSE, m |-> mi, t |-> ti]]
         \o IterTypesFrom(mods, mi + 1)

IterTypes(P) ==
    IF OrEmpty(P.Modules).tag = "scalar" THEN <<CrashItem>>
    ELSE IterTypesFrom(OrEmpty(P.Modules).items, 1)

TypeAt(P, it) == P.Modules.items[it.m].Types.items[it.t]
ModuleAt(P, it) == P.Modules.items[it.m]

(***************************************************************************)
(* _iter_members: the members that are records, role by role.              *)
(***************************************************************************)
RolesSwapped == <<"Methods", "Fields", "Properties", "Events">>
MemberRoles == <<"Fields", "Methods", "Properties", "Events">>

RoleMembers(t, key) ==
    LET arr == t[key]
        idx == {j \in 1..Len(arr) : arr[j].isDict}
        at(k) == CHOOSE j \in idx : Cardinality({i \in idx : i < j}) = k - 1
    IN  [k \in 1..Cardinality(idx) |-> [role |-> key, j |-> at(k)]]

IterMembers(t) ==
    Flatten([r \in 1..Len(MemberRoles) |-> RoleMembers(t, MemberRoles[r])])

MemberAt(t, ref) == t[ref.role][ref.j]

(***************************************************************************)
(* broad_search.  The three nested loops visit the corpus in one fixed     *)
(* order that does not depend on the pattern: BroadVisits lists the        *)
(* entities in that order, with a crash mark where the walk raises         *)
(* (AttributeError / TypeError on a value that is no record or no list).   *)
(* BroadLoop then walks the list as the loops do: test, append, return as  *)
(* soon as the cap is reached.  pos records, beside each hit, the entity   *)
(* it was built from.                                                      *)
(***************************************************************************)
Visit(kind, m, t, role, j) ==
    [kind |-> kind, m |-> m, t |-> t, role |-> role, j |-> j]
CrashVisit == Visit("crash", 0, 0, "", 0)

\* one type and its members (lines 140-174)
TypeVisits(P, it) ==
    LET t == TypeAt(P, it)
        ms == IterMembers(t)
    IN  IF ~t.isDict THEN <<CrashVisit>>
        ELSE <<Visit("type", it.m, it.t, "", 0)>>
             \o [k \in 1..Len(ms) |->
                    Visit("member", it.m, it.t, ms[k].role, ms[k].j)]

\* one module: itself, then every pair of _iter_types() that is this module's
\* (lines 113-138: "if mod_obj is not mod: continue")
ModuleVisits(P, mi) ==
    LET its == IterTypes(P)
    IN  IF ~P.Modules.items[mi].isDict THEN <<CrashVisit>>
        ELSE <<Visit("module", mi, 0, "", 0)>>
             \o Flatten([k \in 1..Len(its) |->
                    IF its[k].crash THEN <<CrashVisit>>
                    ELSE IF its[k].m # mi THEN <<>>
                    ELSE TypeVisits(P, its[k])])

\* nothing is visited after the first raise
CutAtCrash(vs) ==
    LET bad == {i \in 1..Len(vs) : vs[i].kind = "crash"}
    IN  IF bad = {} THEN vs ELSE SubSeq(vs, 1, Min(bad))

BroadVisits(P) ==
    IF OrEmpty(P.Modules).tag = "scalar" THEN <<CrashVisit>>
    ELSE CutAtCrash(Flatten([mi \in 1..Len(OrEmpty(P.Modules).items) |->
                                ModuleVisits(P, mi)]))

\* the three match tests (lines 122, 143, 162)
ModuleMatches(regex, mod) ==
    \/ RegexSearch(regex, Get(mod, "Name"))
    \/ (Get(mod, "AssemblyFullName") # <<>>
        /\ RegexSearch(regex, Get(mod, "AssemblyFullName")))
TypeMatches(regex, t) ==
    \/ RegexSearch(regex, Get(t, "FullName"))
    \/ (Get(t, "Name") # <<>> /\ RegexSearch(regex, Get(t, "Name")))
\* a member test that leaves the signature out
MemberMatchesWithoutSignature(regex, m) ==
    \/ RegexSearch(regex, Get(m, "FullName"))
    \/ (Get(m, "Name") # <<>> /\ RegexSearch(regex, Get(m, "Name")))
MemberMatches(regex, m) ==
    \/ RegexSearch(regex, Get(m, "FullName"))
    \/ (Get(m, "Name") # <<>> /\ RegexSearch(regex, Get(m, "Name")))
    \/ (Get(m, "Signature") # <<>> /\ RegexSearch(regex, Get(m, "Signature")))

\* x or y on strings
OrStr(x, y) == IF x # <<>> THEN x ELSE y

Hit(kind, name, fullName, moduleName, assemblyPath, signature) ==
    [kind |-> kind, name |-> name, fullName |-> fullName,
     moduleName |-> moduleName, assemblyPath |-> assemblyPath,
     signature |-> signature]

\* the three result records (lines 123-132, 144-153, 163-172)
ModuleHit(mod) ==
    Hit("module", Get(mod, "Name"),
        OrStr(Get(mod, "AssemblyFullName"), Get(mod, "Name")),
        Get(mod, "Name"), AssemblyPathOf(mod), <<>>)
\* a type hit whose fullName has no fallback to the name
TypeHitWithoutFallback(mod, t) ==
    Hit("type", Get(t, "Name"), Get(t, "FullName"),
        Get(mod, "Name"), AssemblyPathOf(mod), <<>>)
TypeHit(mod, t) ==
    Hit("type", Get(t, "Name"), OrStr(Get(t, "FullName"), Get(t, "Name")),
        Get(mod, "Name"), AssemblyPathOf(mod), <<>>)
MemberHit(mod, m) ==
    Hit("member", Get(m, "Name"), OrStr(Get(m, "FullName"), Get(m, "Name")),
        Get(mod, "Name"), AssemblyPathOf(mod), Get(m, "Signature"))

VisitMatches(P, regex, v) ==
    IF v.kind = "module" THEN ModuleMatches(regex, ModuleAt(P, v))
    ELSE IF v.kind = "type" THEN TypeMatches(regex, TypeAt(P, v))
    ELSE MemberMatches(regex, MemberAt(TypeAt(P, v), v))
VisitHit(P, v) ==
    IF v.kind = "module" THEN ModuleHit(ModuleAt(P, v))
    ELSE IF v.kind = "type" THEN TypeHit(ModuleAt(P, v), TypeAt(P, v))
    ELSE MemberHit(ModuleAt(P, v), MemberAt(TypeAt(P, v), v))

\* max(1, min(max_results or 500, 500))   (lines 109, 251)
ClampNegativeToDefault(max_results) ==
    IF max_results <= 0 THEN DefaultMaxResults
    ELSE IF max_results > MaxResultsCap THEN MaxResultsCap ELSE max_results
ClampMaxResults(max_results) ==
    LET orDefault == IF max_results = 0 THEN DefaultMaxResults ELSE max_results
        least == IF orDefault < MaxResultsCap THEN orDefault ELSE MaxResultsCap
    IN  IF MinResultsCap > least THEN MinResultsCap ELSE least

\* if len(results) >= max_results: return results   (lines 133, 154, 173, 352)
CapReachedLate(results, max_results) == Len(results) > max_results
CapReached(results, max_results) == Len(results) >= max_results

Raised(what) == [status |-> what, hits |-> <<>>, pos |-> <<>>, cap |-> 0]

RECURSIVE BroadLoop(_, _, _, _, _, _, _)
BroadLoop(P, regex, cap, visits, i, hits, pos) ==
    IF i > Len(visits)
    THEN [status |-> "ok", hits |-> hits, pos |-> pos, cap |-> cap]
    ELSE IF visits[i].kind = "crash" THEN Raised("crash")
    ELSE IF VisitMatches(P, regex, visits[i])
    THEN LET hits2 == Append(hits, VisitHit(P, visits[i]))
             pos2 == Append(pos, visits[i])
         IN  IF CapReached(hits2, cap)
             THEN [status |-> "ok", hits |-> hits2, pos |-> pos2, cap |-> cap]
             ELSE BroadLoop(P, regex, cap, visits, i + 1, hits2, pos2)
    ELSE BroadLoop(P, regex, cap, visits, i + 1, hits, pos)

\* scans to the end and keeps the last hits instead of returning at the cap
BroadSearchKeepsLast(P, pattern, max_results) ==
    LET cap == ClampMaxResults(max_results)
        full == BroadLoop(P, pattern, Len(BroadVisits(P)) + 1, BroadVisits(P),
                          1, <<>>, <<>>)
        n == Len(full.hits)
        from == IF n > cap THEN n - cap + 1 ELSE 1
    IN  IF CompileFails(pattern) THEN Raised("ValueError")
        ELSE IF full.status # "ok" THEN full
        ELSE [status |-> "ok", hits |-> SubSeq(full.hits, from, n),
              pos |-> SubSeq(full.pos, from, n), cap |-> cap]

BroadSearch(P, pattern, max_results) ==
    IF CompileFails(pattern) THEN Raised("ValueError")
    ELSE BroadLoop(P, pattern, ClampMaxResults(max_results), BroadVisits(P),
                   1, <<>>, <<>>)

(***************************************************************************)
(* clear_lookup.  It walks _iter_types() to the end, so it raises whenever *)
(* the walk does, or when a type is no record.                             *)
(***************************************************************************)
Quote == "\""

\* identifier.strip().strip('"')   (lines 181, 247)
\* removes one pair of enclosing quotes only
TrimOneLayer(identifier) ==
    LET s == Strip(identifier)
    IN  IF Len(s) >= 2 /\ s[1] = Quote /\ s[Len(s)] = Quote
        THEN SubSeq(s, 2, Len(s) - 1)
        ELSE s
\* leaves the quotes in place
TrimWhitespaceOnly(identifier) == Strip(identifier)
TrimIdentifier(identifier) == StripChars(Strip(identifier), {Quote})

WalkRaises(P) ==
    LET its == IterTypes(P)
    IN  \E k \in 1..Len(its) : its[k].crash \/ ~TypeAt(P, its[k]).isDict

Candidate(mod, t) ==
    [moduleName |-> Get(mod, "Name"), assemblyPath |-> AssemblyPathOf(mod),
     typeFullName |-> Get(t, "FullName"),
     sourcePath |-> Get(t, "SourceFilePath")]

IsExactMatch(ident, t) == Get(t, "FullName") = ident
IsPartialMatch(ident, t) ==
    /\ ~IsExactMatch(ident, t)
    /\ Get(t, "FullName") # <<>>
    /\ Contains(Lower(ident), Lower(Get(t, "FullName")))

\* matches = exact_matches or partial_matches   (line 216)
ChooseBoth(exact, partial) == exact \o partial
ChooseMatches(exact, partial) == IF exact # <<>> THEN exact ELSE partial

\* the three outcomes (lines 218-234)
LookupOutcomeFirst(ident, matches) ==
    IF matches = <<>> THEN [status |-> "not_found", identifier |-> ident]
    ELSE [status |-> "ok", identifier |-> ident,
          assemblyPath |-> matches[1].assemblyPath,
          typeFullName |-> matches[1].typeFullName,
          sourcePath |-> matches[1].sourcePath]
LookupOutcome(ident, matches) ==
    IF matches = <<>> THEN [status |-> "not_found", identifier |-> ident]
    ELSE IF Len(matches) = 1
    THEN [status |-> "ok", identifier |-> ident,
          assemblyPath |-> matches[1].assemblyPath,
          typeFullName |-> matches[1].typeFullName,
          sourcePath |-> matches[1].sourcePath]
    ELSE [status |-> "ambiguous", identifier |-> ident, candidates |-> matches]

\* result: status, the dictionary returned (body) and, beside it, the types
\* the matches were built from (pos)
ClearLookup(P, identifier) ==
    LET ident == TrimIdentifier(identifier)
        its == IterTypes(P)
        exact(it) == IsExactMatch(ident, TypeAt(P, it))
        partial(it) == IsPartialMatch(ident, TypeAt(P, it))
        chosen == ChooseMatches(SelectSeq(its, exact), SelectSeq(its, partial))
        matches == [k \in 1..Len(chosen) |->
                       Candidate(ModuleAt(P, chosen[k]), TypeAt(P, chosen[k]))]
    IN  IF ident = <<>>
        THEN [status |-> "bad_request",
              body |-> [status |-> "bad_request"], pos |-> <<>>]
        ELSE IF WalkRaises(P)
        THEN [status |-> "crash", body |-> [status |-> "crash"], pos |-> <<>>]
        ELSE [status |-> LookupOutcome(ident, matches).status,
              body |-> LookupOutcome(ident, matches), pos |-> chosen]

(***************************************************************************)
(* find_type_references                                                    *)
(***************************************************************************)
\* first pass (lines 258-273): the types the identifier stands for
IsTarget(ident, t) ==
    /\ ~(Get(t, "Name") = <<>> /\ Get(t, "FullName") = <<>>)
    /\ \/ Lower(Get(t, "Name")) = Lower(ident)
       \/ Lower(Get(t, "FullName")) = Lower(ident)
       \/ (Get(t, "FullName") # <<>>
           /\ Contains(Lower(ident), Lower(Get(t, "FullName"))))

TargetTypes(P, ident) ==
    LET its == IterTypes(P)
    IN  {TypeAt(P, its[k]) :
            k \in {i \in 1..Len(its) : IsTarget(ident, TypeAt(P, its[i]))}}
TargetNames(targets) == {Get(t, "Name") : t \in targets} \ {<<>>}
TargetFullNames(targets) == {Get(t, "FullName") : t \in targets} \ {<<>>}

\* tokens (lines 277-280)
TokensWithoutIdentifier(ident, targets) ==
    (TargetNames(targets) \cup TargetFullNames(targets)) \ {<<>>}
Tokens(ident, targets) ==
    ({ident} \cup TargetNames(targets) \cup TargetFullNames(targets)) \ {<<>>}

\* contains_token (lines 286-293)
ContainsToken(tokens, str) ==
    /\ str # <<>>
    /\ \E tok \in tokens : Contains(Lower(tok), Lower(str))

\* "if spec_type_full_names and t_full in spec_type_full_names: continue"
\* (lines 284, 304-305)
IsSkipped(specTypeFullNames, t) ==
    specTypeFullNames # {} /\ Get(t, "FullName") \in specTypeFullNames

litBaseType == <<"b", "a", "s", "e", "T", "y", "p", "e", "=">>
litMember == <<"m", "e", "m", "b", "e", "r">>
litSig == <<" ", "s", "i", "g", "=">>
litFullName == <<" ", "f", "u", "l", "l", "N", "a", "m", "e", "=">>

\* the reason string of one member (lines 327-334)
MemberReason(m) ==
    OrStr(Get(m, "MemberType"), litMember)
    \o (IF Get(m, "Name") # <<>> THEN <<" ">> \o Get(m, "Name") ELSE <<>>)
    \o (IF Get(m, "Signature") # <<>> THEN litSig \o Get(m, "Signature")
        ELSE IF Get(m, "FullName") # <<>> THEN litFullName \o Get(m, "FullName")
        ELSE <<>>)

MemberRefersToByFullNameOnly(tokens, m) ==
    ContainsToken(tokens, Get(m, "FullName"))
MemberRefersTo(tokens, m) ==
    ContainsToken(tokens, Get(m, "Signature"))
    \/ ContainsToken(tokens, Get(m, "FullName"))

\* if len(reasons) >= 10: break   (line 336)
ReasonsNeverFull(reasons) == FALSE
ReasonsFull(reasons) == Len(reasons) >= MaxReasons

\* the member loop of one type (lines 320-338); why records, beside each
\* reason, the member (or the base type) it was written for
RECURSIVE MemberReasons(_, _, _, _, _, _)
MemberReasons(tokens, t, ms, k, reasons, why) ==
    IF k > Len(ms) THEN [reasons |-> reasons, why |-> why]
    ELSE LET m == MemberAt(t, ms[k])
             hit == MemberRefersTo(tokens, m)
             reasons2 == IF hit THEN Append(reasons, MemberReason(m)) ELSE reasons
             why2 == IF hit THEN Append(why, ms[k]) ELSE why
         IN  IF ReasonsFull(reasons2) THEN [reasons |-> reasons2, why |-> why2]
             ELSE MemberReasons(tokens, t, ms, k + 1, reasons2, why2)

BaseRef == [role |-> "BaseType", j |-> 0]

\* the reasons of one type (lines 314-338)
TypeReasons(tokens, t) ==
    IF ContainsToken(tokens, Get(t, "BaseType"))
    THEN MemberReasons(tokens, t, IterMembers(t), 1,
                       <<litBaseType \o Get(t, "BaseType")>>, <<BaseRef>>)
    ELSE MemberReasons(tokens, t, IterMembers(t), 1, <<>>, <<>>)

TypeRefHit(mod, t, reasons) ==
    [kind |-> "typeRef", name |-> Get(t, "Name"),
     fullName |-> OrStr(Get(t, "FullName"), Get(t, "Name")),
     moduleName |-> Get(mod, "Name"), assemblyPath |-> AssemblyPathOf(mod),
     sourcePath |-> Get(t, "SourceFilePath"), reasons |-> reasons]

\* second pass (lines 297-353)
RECURSIVE RefLoop(_, _, _, _, _, _, _, _, _)
RefLoop(P, tokens, specNames, cap, its, i, hits, pos, why) ==
    IF i > Len(its) THEN [hits |-> hits, pos |-> pos, why |-> why]
    ELSE IF IsSkipped(specNames, TypeAt(P, its[i]))
    THEN RefLoop(P, tokens, specNames, cap, its, i + 1, hits, pos, why)
    ELSE LET found == TypeReasons(tokens, TypeAt(P, its[i]))
             hits2 == Append(hits, TypeRefHit(ModuleAt(P, its[i]),
                                              TypeAt(P, its[i]), found.reasons))
         IN  IF found.reasons = <<>>
             THEN RefLoop(P, tokens, specNames, cap, its, i + 1, hits, pos, why)
             ELSE IF CapReached(hits2, cap)
             THEN [hits |-> hits2, pos |-> Append(pos, its[i]),
                   why |-> Append(why, found.why)]
             ELSE RefLoop(P, tokens, specNames, cap, its, i + 1, hits2,
                          Append(pos, its[i]), Append(why, found.why))

RefsRaised(what) ==
    [status |-> what, identifier |-> <<>>, hits |-> <<>>, pos |-> <<>>,
     why |-> <<>>, cap |-> 0]

\* never stops at max_results
FindTypeReferencesUncapped(P, identifier, max_results) ==
    LET ident == TrimIdentifier(identifier)
        targets == TargetTypes(P, ident)
        its == IterTypes(P)
        out == RefLoop(P, Tokens(ident, targets), TargetFullNames(targets),
                       Len(its) + 1, its, 1, <<>>, <<>>, <<>>)
    IN  IF ident = <<>> THEN RefsRaised("ValueError")
        ELSE IF WalkRaises(P) THEN RefsRaised("crash")
        ELSE [status |-> "ok", identifier |-> ident, hits |-> out.hits,
              pos |-> out.pos, why |-> out.why,
              cap |-> ClampMaxResults(max_results)]

FindTypeReferences(P, identifier, max_results) ==
    LET ident == TrimIdentifier(identifier)
        cap == ClampMaxResults(max_results)
        targets == TargetTypes(P, ident)
        tokens == Tokens(ident, targets)
        specTypeFullNames == TargetFullNames(targets)
        its == IterTypes(P)
        out == RefLoop(P, tokens, specTypeFullNames, cap, its, 1,
                       <<>>, <<>>, <<>>)
    IN  IF ident = <<>> THEN RefsRaised("ValueError")
        ELSE IF WalkRaises(P) THEN RefsRaised("crash")
        ELSE [status |-> "ok", identifier |-> ident, hits |-> out.hits,
              pos |-> out.pos, why |-> out.why, cap |-> cap]

(***************************************************************************)
(* RequestHandler.do_GET                                                   *)
(***************************************************************************)
Pattern(kind, lit) == [kind |-> kind, lit |-> lit]
PatternParams ==
    { Pattern("missing", <<>>), Pattern("invalid", <<>>),
      Pattern("sub", <<>>), Pattern("sub", slowT), Pattern("sub", sNT),
      Pattern("anchored", <<>>) }

\* the maxResults query parameter: absent (or empty), an integer, or other text
IntParam(n) == [kind |-> "int", val |-> n]
MaxResultsParams ==
    {[kind |-> "absent", val |-> 0], [kind |-> "junk", val |-> 0]}
    \cup {IntParam(n) : n \in (-1..MaxK) \cup {MaxResultsCap + 1}}

\* int(params.get("maxResults") or "500")   (lines 403, 419)
ParseMaxResults(param) ==
    IF param.kind = "absent" THEN [ok |-> TRUE, val |-> DefaultMaxResults]
    ELSE IF param.kind = "junk" THEN [ok |-> FALSE, val |-> 0]
    ELSE [ok |-> TRUE, val |-> param.val]

NoRequest == [op |-> "none"]
NoResponse == [http |-> 0, result |-> [status |-> "none"]]
\* an exception do_GET does not catch: no response is written
Unhandled(result) == [http |-> 0, result |-> result]
Reply(http, result) == [http |-> http, result |-> result]

\* GET /api/search/broad   (lines 401-414)
HandleSearchBroad(P, pattern, maxResults) ==
    IF ~ParseMaxResults(maxResults).ok THEN Unhandled([status |-> "bad_int"])
    ELSE IF pattern.kind = "missing" THEN Reply(400, [status |-> "missing"])
    ELSE LET r == BroadSearch(P, pattern, ParseMaxResults(maxResults).val)
         IN  IF r.status = "ValueError" THEN Reply(400, r)
             ELSE IF r.status = "crash" THEN Unhandled(r)
             ELSE Reply(200, r)

\* the identifier query parameter: params.get("identifier") or ""
IdentifierParams ==
    { <<>>, sT, sNT, slowNT, sU, sX, sPadT,
      <<" ", Quote, "N", ".", "T", Quote>>, <<Quote, Quote>>,
      <<Quote, " ", "T", Quote>>, <<Quote>> }

\* GET /api/search/typeRefs   (lines 416-429)
HandleSearchTypeRefs(P, identifier, maxResults) ==
    IF ~ParseMaxResults(maxResults).ok THEN Unhandled([status |-> "bad_int"])
    ELSE IF identifier = <<>> THEN Reply(400, [status |-> "missing"])
    ELSE LET r == FindTypeReferences(P, identifier,
                                     ParseMaxResults(maxResults).val)
         IN  IF r.status = "ValueError" THEN Reply(400, r)
             ELSE IF r.status = "crash" THEN Unhandled(r)
             ELSE Reply(200, r)

\* GET /api/lookup/clear   (lines 431-437)
HandleLookupClear(P, identifier) ==
    LET r == ClearLookup(P, identifier)
    IN  IF r.status = "crash" THEN Unhandled(r)
        ELSE IF r.status = "bad_request" THEN Reply(400, r)
        ELSE Reply(200, r)

\* do_GET: the branch taken by the request's path (lines 394-439)
DoGetOn(P, r) ==
    CASE r.op = "broad" -> HandleSearchBroad(P, r.pattern, r.maxResults)
      [] r.op = "typeRefs" -> HandleSearchTypeRefs(P, r.identifier, r.maxResults)
      [] r.op = "lookup" -> HandleLookupClear(P, r.identifier)

(***************************************************************************)
(* build_paths_from_tree (llm_chat_backend.py).                            *)
(* A node of the input list is [isDict, keyword, parent]; keyword and      *)
(* parent are [tag, text] with tag "str", "null" (None) or "other" (a      *)
(* value of another type).                                                 *)
(***************************************************************************)
Null == [tag |-> "null", text |-> <<>>]
Str(text) == [tag |-> "str", text |-> text]
Other == [tag |-> "other", text |-> <<>>]
Node(keyword, parent) == [isDict |-> TRUE, keyword |-> keyword, parent |-> parent]
NonDictNode == [isDict |-> FALSE, keyword |-> Null, parent |-> Null]

\* lines 376-386: the well-formed entries, keyword stripped, parent as given
\* (None when it is no string)
IsValidNode(n) ==
    n.isDict /\ n.keyword.tag = "str" /\ Strip(n.keyword.text) # <<>>
NormalizeNode(n) ==
    [keyword |-> Strip(n.keyword.text),
     parent |-> IF n.parent.tag = "str" THEN n.parent ELSE Null]
NormalizeTree(t) ==
    LET valid == SelectSeq(t, IsValidNode)
    IN  [i \in 1..Len(valid) |-> NormalizeNode(valid[i])]

\* children.get(key, []) (lines 392-398): the keywords filed under a parent
ChildrenOf(nodes, key) ==
    LET under(n) == n.parent = key
        kids == SelectSeq(nodes, under)
    IN  [i \in 1..Len(kids) |-> kids[i].keyword]

\* parent_of.get(kw): the parent of the last node with that keyword
ParentOf(nodes, kw) ==
    LET at == {i \in 1..Len(nodes) : nodes[i].keyword = kw}
    IN  IF at = {} THEN Null ELSE nodes[Max(at)].parent

\* lines 400-403
Roots(nodes) ==
    LET roots == ChildrenOf(nodes, Null) \o ChildrenOf(nodes, Str(<<>>))
    IN  IF roots = <<>> THEN [i \in 1..Len(nodes) |-> nodes[i].keyword]
        ELSE roots

\* lines 411-418: the child's text with its parent's text removed from the front
DisplayKeywordKeepsPrefix(current_kw, parent_kw) == current_kw
DisplayKeyword(current_kw, parent_kw) ==
    LET trimmed ==
            LStripChars(SubSeq(current_kw, Len(parent_kw.text) + 1, Len(current_kw)),
                        {"_", " ", "."})
    IN  IF parent_kw.tag = "str" /\ parent_kw.text # <<>>
           /\ StartsWith(Lower(current_kw), Lower(parent_kw.text))
           /\ trimmed # <<>>
        THEN trimmed
        ELSE current_kw

\* dfs (lines 407-426).  A keyword met again on its own path is met again
\* for ever: a path longer than the node list means the recursion does not
\* end, and Python raises RecursionError.
RECURSIVE Dfs(_, _, _, _, _)
RECURSIVE DfsKids(_, _, _, _, _, _)
\* also writes a phrase for a node that has children
DfsEmitsInner(nodes, current_kw, acc, parent_kw, depth) ==
    LET acc2 == Append(acc, DisplayKeyword(current_kw, parent_kw))
        kids == ChildrenOf(nodes, Str(current_kw))
        below == DfsKids(nodes, kids, 1, acc2, current_kw, depth)
    IN  IF depth > Len(nodes) THEN [ok |-> FALSE, paths |-> <<>>]
        ELSE IF kids = <<>> THEN [ok |-> TRUE, paths |-> <<JoinSpace(acc2)>>]
        ELSE [ok |-> below.ok, paths |-> <<JoinSpace(acc2)>> \o below.paths]
Dfs(nodes, current_kw, acc, parent_kw, depth) ==
    LET acc2 == Append(acc, DisplayKeyword(current_kw, parent_kw))
        kids == ChildrenOf(nodes, Str(current_kw))
    IN  IF depth > Len(nodes) THEN [ok |-> FALSE, paths |-> <<>>]
        ELSE IF kids = <<>> THEN [ok |-> TRUE, paths |-> <<JoinSpace(acc2)>>]
        ELSE DfsKids(nodes, kids, 1, acc2, current_kw, depth)
DfsKids(nodes, kids, k, acc, current_kw, depth) ==
    IF k > Len(kids) THEN [ok |-> TRUE, paths |-> <<>>]
    ELSE LET first == Dfs(nodes, kids[k], acc, Str(current_kw), depth + 1)
             rest == DfsKids(nodes, kids, k + 1, acc, current_kw, depth)
         IN  IF ~first.ok THEN first
             ELSE IF ~rest.ok THEN rest
             ELSE [ok |-> TRUE, paths |-> first.paths \o rest.paths]

\* the root loop (lines 428-431)
RECURSIVE DfsRoots(_, _, _)
DfsRoots(nodes, roots, k) ==
    IF k > Len(roots) THEN [ok |-> TRUE, paths |-> <<>>]
    ELSE LET first == Dfs(nodes, roots[k], <<>>, ParentOf(nodes, roots[k]), 1)
             rest == DfsRoots(nodes, roots, k + 1)
         IN  IF ~first.ok THEN first
             ELSE IF ~rest.ok THEN rest
             ELSE [ok |-> TRUE, paths |-> first.paths \o rest.paths]

BuildPathsFromTree(t) ==
    LET nodes == NormalizeTree(t)
        out == DfsRoots(nodes, Roots(nodes), 1)
    IN  IF nodes = <<>> THEN [status |-> "ok", paths |-> <<>>]
        ELSE IF ~out.ok THEN [status |-> "RecursionError", paths |-> <<>>]
        ELSE [status |-> "ok", paths |-> out.paths]

\* the keyword trees tried
kA == <<"A">>
kB == <<"B">>
kAB == <<"A", "B">>
klowA == <<"a">>
kASepB == <<"A", "_", ".", "B">>
sPlayer == <<"P", "l", "a", "y", "e", "r">>
sHealth == <<"H", "e", "a", "l", "t", "h">>
sAttack == <<"A", "t", "t", "a", "c", "k">>
sPower == <<"P", "o", "w", "e", "r">>
sAttackSpeed == sAttack \o <<"S", "p", "e", "e", "d">>
sSpeed == <<"S", "p", "e", "e", "d">>

NodePool ==
    {Node(Str(k), p) : k \in {kA, kB, kAB}, p \in {Null, Str(<<>>), Str(kA), Str(kB)}}
    \cup {NonDictNode, Node(Str(<<" ">>), Null), Node(Str(<<" ", "B">>), Other)}
    \cup {Node(Str(klowA), Str(kA)), Node(Str(kASepB), Str(kA))}

ExampleTree ==
    << Node(Str(sPlayer), Null), Node(Str(sHealth), Str(sPlayer)),
       Node(Str(sAttack), Str(sPlayer)), Node(Str(sPower), Str(sAttack)) >>
ExampleTreeSpeed ==
    << Node(Str(sPlayer), Null), Node(Str(sHealth), Str(sPlayer)),
       Node(Str(sAttack), Str(sPlayer)), Node(Str(sAttackSpeed), Str(sAttack)) >>

Trees == SeqsUpTo(NodePool, MaxNodes) \cup {ExampleTree, ExampleTreeSpeed}

(***************************************************************************)
(* build_keyword_paths (llm_chat_backend.py): the flat form of the path    *)
(* builder.  Its second parameter, last_user, is never read.               *)
(***************************************************************************)
\* " " in kw
HasSpace(kw) == \E i \in 1..Len(kw) : kw[i] = " "

\* kw and kw[0].isupper()
IsCapitalized(kw) == kw # <<>> /\ IsUpperChar(kw[1])

\* lines 340-346: the first capitalized keyword, otherwise the first one
PickRootFirstKeyword(kws) == kws[1]
PickRoot(kws) ==
    LET caps == {i \in 1..Len(kws) : IsCapitalized(kws[i])}
    IN  IF caps = {} THEN kws[1] ELSE kws[Min(caps)]

\* line 348: attrs = [k for k in keywords if k != root]
AttrsOf(kws, root) ==
    LET differs(k) == k # root
    IN  SelectSeq(kws, differs)

\* returns the phrases even when one keyword is a phrase already
BuildKeywordPathsAlwaysSynthesizes(kws) ==
    LET root == PickRoot(kws)
        attrs == AttrsOf(kws, root)
    IN  IF kws = <<>> THEN [status |-> "ok", paths |-> <<>>]
        ELSE [status |-> "ok",
              paths |-> <<root>> \o
                        [i \in 1..Len(attrs) |-> root \o <<" ">> \o attrs[i]]]
BuildKeywordPaths(kws) ==
    LET root == PickRoot(kws)
        attrs == AttrsOf(kws, root)
    IN  IF kws = <<>> THEN [status |-> "ok", paths |-> <<>>]
        ELSE IF \E i \in 1..Len(kws) : HasSpace(kws[i])
        THEN [status |-> "ok", paths |-> kws]
        ELSE [status |-> "ok",
              paths |-> <<root>> \o
                        [i \in 1..Len(attrs) |-> root \o <<" ">> \o attrs[i]]]

\* the flat keyword lists tried
KeywordPool == {kA, kB, klowA, <<"b">>, <<"A", " ", "B">>, <<>>}
FlatLists == SeqsUpTo(KeywordPool, MaxKeywords)

(***************************************************************************)
(* The server: main() loads the snapshot, then serves requests one at a    *)
(* time (HTTPServer.serve_forever).                                        *)
(***************************************************************************)
NoTree == <<>>
NoPaths == [status |-> "none", paths |-> <<>>]
NoKeywords == <<>>
FlatIdle == keywords = NoKeywords /\ phrases = NoPaths
Clients == 1..MaxClients
NoConn == [state |-> "idle", req |-> NoRequest, resp |-> NoResponse, peers |-> {}]
NoHandler == [client |-> 0, stage |-> "none", result |-> NoResponse]
ConnIdle ==
    /\ conns = [c \in Clients |-> NoConn]
    /\ backlog = <<>>
    /\ handler = NoHandler
NoChat == [pc |-> "off"]
ChatIdle == chat = NoChat /\ stdout = <<>>
NoSearch == [pc |-> "off"]
SearchIdle == search = NoSearch
RestIdle == FlatIdle /\ ConnIdle /\ ChatIdle /\ SearchIdle

Init ==
    /\ PROJECT = UnloadedProject
    /\ loaded = FALSE
    /\ doc = NoJson("none")
    /\ req = NoRequest
    /\ resp = NoResponse
    /\ tree = NoTree
    /\ paths = NoPaths
    /\ RestIdle

Idle == loaded /\ req = NoRequest

Load ==
    /\ ~loaded
    /\ \E d \in Docs :
          /\ doc' = d
          /\ PROJECT' = ReadInitialProject(d)
    /\ loaded' = TRUE
    /\ UNCHANGED <<req, resp, tree, paths>>
    /\ UNCHANGED restVars

GetSearchBroad ==
    /\ Idle
    /\ \E pattern \in PatternParams, maxResults \in MaxResultsParams :
          /\ req' = [op |-> "broad", pattern |-> pattern, maxResults |-> maxResults]
          /\ resp' = HandleSearchBroad(PROJECT, pattern, maxResults)
    /\ UNCHANGED <<PROJECT, loaded, doc, tree, paths>>
    /\ UNCHANGED restVars

\* a lookup that leaves an emptied corpus behind
GetLookupClearForgets ==
    /\ Idle
    /\ \E identifier \in IdentifierParams :
          /\ req' = [op |-> "lookup", identifier |-> identifier]
          /\ resp' = HandleLookupClear(PROJECT, identifier)
    /\ PROJECT' = EmptyProject
    /\ UNCHANGED <<loaded, doc, tree, paths>>
    /\ UNCHANGED restVars

GetLookupClear ==
    /\ Idle
    /\ \E identifier \in IdentifierParams :
          /\ req' = [op |-> "lookup", identifier |-> identifier]
          /\ resp' = HandleLookupClear(PROJECT, identifier)
    /\ UNCHANGED <<PROJECT, loaded, doc, tree, paths>>
    /\ UNCHANGED restVars

GetSearchTypeRefs ==
    /\ Idle
    /\ \E identifier \in IdentifierParams, maxResults \in MaxResultsParams :
          /\ req' = [op |-> "typeRefs", identifier |-> identifier,
                     maxResults |-> maxResults]
          /\ resp' = HandleSearchTypeRefs(PROJECT, identifier, maxResults)
    /\ UNCHANGED <<PROJECT, loaded, doc, tree, paths>>
    /\ UNCHANGED restVars

\* handle_one_request returns; serve_forever waits for the next request
FinishRequest ==
    /\ loaded
    /\ req # NoRequest
    /\ req' = NoRequest
    /\ resp' = NoResponse
    /\ UNCHANGED <<PROJECT, loaded, doc, tree, paths>>
    /\ UNCHANGED restVars

Next ==
    \/ Load
    \/ GetSearchBroad
    \/ GetLookupClear
    \/ GetSearchTypeRefs
    \/ FinishRequest

Spec == Init /\ [][Next]_vars

(***************************************************************************)
(* The path builder on its own: one call of build_paths_from_tree on a     *)
(* tree the language model returned.                                       *)
(***************************************************************************)
InitTree ==
    /\ PROJECT = UnloadedProject
    /\ loaded = FALSE
    /\ doc = NoJson("none")
    /\ req = NoRequest
    /\ resp = NoResponse
    /\ tree \in Trees
    /\ paths = NoPaths
    /\ RestIdle

BuildPaths ==
    /\ paths = NoPaths
    /\ paths' = BuildPathsFromTree(tree)
    /\ UNCHANGED <<PROJECT, loaded, doc, req, resp, tree>>
    /\ UNCHANGED restVars

NextTree == BuildPaths

SpecTree == InitTree /\ [][NextTree]_vars

(***************************************************************************)
(* The flat path builder on its own: one call of build_keyword_paths on    *)
(* a keyword list.                                                         *)
(***************************************************************************)
InitFlat ==
    /\ PROJECT = UnloadedProject
    /\ loaded = FALSE
    /\ doc = NoJson("none")
    /\ req = NoRequest
    /\ resp = NoResponse
    /\ tree = NoTree
    /\ paths = NoPaths
    /\ keywords \in FlatLists
    /\ phrases = NoPaths
    /\ ConnIdle /\ ChatIdle /\ SearchIdle

BuildFlat ==
    /\ phrases = NoPaths
    /\ phrases' = BuildKeywordPaths(keywords)
    /\ UNCHANGED <<PROJECT, loaded, doc, req, resp, tree, paths, keywords>>
    /\ UNCHANGED <<connVars, chatVars, search>>

NextFlat == BuildFlat

SpecFlat == InitFlat /\ [][NextFlat]_vars

(***************************************************************************)
(* Several clients at once.  run_server builds an HTTPServer, whose        *)
(* serve_forever accepts one connection, runs its handler to the end and   *)
(* only then accepts the next (socketserver.TCPServer has no threads);     *)
(* requests sent meanwhile wait in the listen queue.  An exception that    *)
(* leaves do_GET is caught by the server loop (handle_error), the          *)
(* connection is closed without a response and the loop goes on.           *)
(* conns[c].peers records the clients that had a request in flight while   *)
(* c's request was in flight.                                              *)
(***************************************************************************)
ConcDocs ==
    { JsonDoc(Root(TRUE, ListOf(<<modN, modM>>), NoProject)),
      JsonDoc(Root(TRUE, NoList("absent"),
                   [tag |-> "dict", Modules |-> ListOf(<<modM>>)])) }
ConcRequests ==
    { [op |-> "broad", pattern |-> Pattern("sub", slowT), maxResults |-> IntParam(1)],
      [op |-> "broad", pattern |-> Pattern("invalid", <<>>),
       maxResults |-> [kind |-> "junk", val |-> 0]],
      [op |-> "lookup", identifier |-> sNT],
      [op |-> "typeRefs", identifier |-> sT, maxResults |-> IntParam(1)] }

InFlight(c) == conns[c].state \in {"queued", "serving"}

InitConc ==
    /\ doc \in ConcDocs
    /\ PROJECT = ReadInitialProject(doc)
    /\ loaded = TRUE
    /\ req = NoRequest
    /\ resp = NoResponse
    /\ tree = NoTree
    /\ paths = NoPaths
    /\ FlatIdle
    /\ ConnIdle /\ ChatIdle /\ SearchIdle

\* a client connects and sends its request
Connect ==
    /\ \E c \in Clients, r \in ConcRequests :
          /\ conns[c].state = "idle"
          /\ conns' =
                [d \in Clients |->
                    IF d = c
                    THEN [state |-> "queued", req |-> r, resp |-> NoResponse,
                          peers |-> {e \in Clients \ {c} : InFlight(e)}]
                    ELSE IF InFlight(d)
                    THEN [conns[d] EXCEPT !.peers = @ \cup {c}]
                    ELSE conns[d]]
          /\ backlog' = Append(backlog, c)
    /\ UNCHANGED <<PROJECT, loaded, doc, req, resp, tree, paths, flatVars, handler,
                   chatVars, search>>

\* serve_forever: the next connection is accepted when no handler runs
Accept ==
    /\ handler = NoHandler
    /\ backlog # <<>>
    /\ handler' = [client |-> Head(backlog), stage |-> "accepted",
                   result |-> NoResponse]
    /\ backlog' = Tail(backlog)
    /\ conns' = [conns EXCEPT ![Head(backlog)].state = "serving"]
    /\ UNCHANGED <<PROJECT, loaded, doc, req, resp, tree, paths, flatVars,
                   chatVars, search>>

\* a handler that leaves an emptied corpus behind
DoGetForgets ==
    /\ handler.stage = "accepted"
    /\ handler' = [handler EXCEPT
                      !.stage = "computed",
                      !.result = DoGetOn(PROJECT, conns[handler.client].req)]
    /\ PROJECT' = EmptyProject
    /\ UNCHANGED <<loaded, doc, req, resp, tree, paths, flatVars, conns, backlog,
                   chatVars, search>>

\* do_GET up to the point where the result is in the handler's local
\* variable (results, result), or the exception is on its way out
DoGet ==
    /\ handler.stage = "accepted"
    /\ handler' = [handler EXCEPT
                      !.stage = "computed",
                      !.result = DoGetOn(PROJECT, conns[handler.client].req)]
    /\ UNCHANGED <<PROJECT, loaded, doc, req, resp, tree, paths, flatVars,
                   conns, backlog, chatVars, search>>

\* _send_json (or the close after an exception); the handler is discarded
SendJson ==
    /\ handler.stage = "computed"
    /\ conns' = [conns EXCEPT ![handler.client].state = "answered",
                              ![handler.client].resp = handler.result]
    /\ handler' = NoHandler
    /\ UNCHANGED <<PROJECT, loaded, doc, req, resp, tree, paths, flatVars, backlog,
                   chatVars, search>>

\* the client has read the response and is free to connect again
Disconnect ==
    /\ \E c \in Clients :
          /\ conns[c].state = "answered"
          /\ conns' = [conns EXCEPT ![c] = NoConn]
    /\ UNCHANGED <<PROJECT, loaded, doc, req, resp, tree, paths, flatVars,
                   backlog, handler, chatVars, search>>

NextConc ==
    \/ Connect
    \/ Accept
    \/ DoGet
    \/ SendJson
    \/ Disconnect

SpecConc == InitConc /\ [][NextConc]_vars


(***************************************************************************)
(* The chat backend: one run of main() (llm_chat_backend.py), which reads  *)
(* one request from stdin.  The request is described by what main looks    *)
(* at: whether stdin holds a JSON object, what the last user message is,   *)
(* DebugMode, Mode, and whether Project is a record of module records.     *)
(* An exception that leaves main ends the process (pc "crashed").          *)
(***************************************************************************)
ChatRequest(kind, messages, debug, mode, project) ==
    [kind |-> kind, messages |-> messages, debug |-> debug, mode |-> mode,
     project |-> project]
ChatInputs ==
    {ChatRequest(k, "none", FALSE, "chat", "ok") :
        k \in {"tty", "blank", "malformed", "nondict"}}
    \cup {ChatRequest("dict", m, d, mo, p) :
            m \in {"none", "text", "file", "nonstring", "nondict"},
            d \in BOOLEAN, mo \in {"chat", "file", "automation"},
            p \in {"ok", "malformed"}}

Response(message, searchKeywords, excluded) ==
    [AssistantMessage |-> message, SearchKeywords |-> searchKeywords,
     ExcludedModules |-> excluded]
NoUserResponse == Response("no user message", "empty", "empty")
DebugResponse == Response("", "last user message", "empty")
LlmResponse == Response("from the model", "from the model", "from the model")
AutomationErrorResponse == Response("automation backend error", "empty", "empty")
FallbackResponse == Response("local heuristic", "fallback keywords", "empty")

InitChat ==
    /\ PROJECT = UnloadedProject
    /\ loaded = FALSE
    /\ doc = NoJson("none")
    /\ req = NoRequest
    /\ resp = NoResponse
    /\ tree = NoTree
    /\ paths = NoPaths
    /\ FlatIdle /\ ConnIdle /\ SearchIdle
    /\ \E i \in ChatInputs :
          chat = [pc |-> "start", input |-> i, mode |-> "chat",
                  resp |-> Response("", "empty", "empty")]
    /\ stdout = <<>>

notChat == <<PROJECT, loaded, doc, req, resp, tree, paths, flatVars, connVars, search>>
Goto(pc) == chat' = [chat EXCEPT !.pc = pc]
Crash == Goto("crashed") /\ UNCHANGED stdout
\* json.dump(resp, sys.stdout); return
DumpAndReturn(r) == stdout' = Append(stdout, r) /\ Goto("done")

\* read_request (lines 100-156): json.loads(data) at line 137 is outside
\* every try
ReadRequest ==
    /\ chat.pc = "start"
    /\ IF chat.input.kind = "malformed" THEN Crash
       ELSE Goto("fields") /\ UNCHANGED stdout
    /\ UNCHANGED notChat

\* lines 1008-1011: req.get(...) on what read_request returned
ReadFields ==
    /\ chat.pc = "fields"
    /\ IF chat.input.kind = "nondict" THEN Crash
       ELSE Goto("extract") /\ UNCHANGED stdout
    /\ UNCHANGED notChat

\* lines 1013-1024: extract_last_user_message and the no-message answer
ExtractLastUser ==
    /\ chat.pc = "extract"
    /\ IF chat.input.messages = "nondict" THEN Crash
       ELSE IF chat.input.messages = "none" THEN DumpAndReturn(NoUserResponse)
       ELSE Goto("debug") /\ UNCHANGED stdout
    /\ UNCHANGED notChat

\* lines 1029-1037
CheckDebugMode ==
    /\ chat.pc = "debug"
    /\ IF chat.input.debug THEN DumpAndReturn(DebugResponse)
       ELSE Goto("mode") /\ UNCHANGED stdout
    /\ UNCHANGED notChat

\* lines 1041-1046: last_user.startswith(...) needs a string
PickMode ==
    /\ chat.pc = "mode"
    /\ IF chat.input.messages = "nonstring" THEN Crash
       ELSE /\ chat' = [chat EXCEPT
                          !.pc = "overview",
                          !.mode = IF chat.input.messages = "file" THEN "file"
                                   ELSE chat.input.mode]
            /\ UNCHANGED stdout
    /\ UNCHANGED notChat

\* lines 1048-1054: build_type_outline / build_project_overview walk Project
BuildOverview ==
    /\ chat.pc = "overview"
    /\ IF chat.input.project = "malformed" THEN Crash
       ELSE /\ Goto(IF chat.mode = "automation" THEN "ping" ELSE "llm")
            /\ UNCHANGED stdout
    /\ UNCHANGED notChat

\* lines 1056-1064: ping_automation_server never raises
PingAutomation ==
    /\ chat.pc = "ping"
    /\ Goto("llm")
    /\ UNCHANGED stdout
    /\ UNCHANGED notChat

\* lines 1069-1099: the call succeeds or raises; a failure is answered with
\* the error text in automation mode and with fallback keywords otherwise
CallLlm ==
    /\ chat.pc = "llm"
    /\ \E outcome \in {"ok", "raises"} :
          chat' = [chat EXCEPT
                     !.pc = IF chat.mode = "automation" THEN "enrich" ELSE "dump",
                     !.resp = IF outcome = "ok" THEN LlmResponse
                              ELSE IF chat.mode = "automation"
                              THEN AutomationErrorResponse
                              ELSE FallbackResponse]
    /\ UNCHANGED stdout
    /\ UNCHANGED notChat

\* lines 1104-1135: hits of the automation server are added to the message;
\* whatever goes wrong is logged and ignored
EnrichWithHits ==
    /\ chat.pc = "enrich"
    /\ \E outcome \in {"hits", "no hits", "raises"} :
          chat' = [chat EXCEPT
                     !.pc = "dump",
                     !.resp = IF outcome = "hits"
                                 /\ chat.resp.SearchKeywords # "empty"
                              THEN [@ EXCEPT !.AssistantMessage = "with hits"]
                              ELSE @]
    /\ UNCHANGED stdout
    /\ UNCHANGED notChat

\* line 1136
DumpResponse ==
    /\ chat.pc = "dump"
    /\ DumpAndReturn(chat.resp)
    /\ UNCHANGED notChat

NextChat ==
    \/ ReadRequest
    \/ ReadFields
    \/ ExtractLastUser
    \/ CheckDebugMode
    \/ PickMode
    \/ BuildOverview
    \/ PingAutomation
    \/ CallLlm
    \/ EnrichWithHits
    \/ DumpResponse

SpecChat == InitChat /\ [][NextChat]_vars

(***************************************************************************)
(* automation_search_with_keywords (llm_chat_backend.py): one call.        *)
(* A keyword is [tag, text] as in the keyword tree ("other" is a value     *)
(* that is no string).  What the automation server answers to a request    *)
(* is not under the function's control: the request fails (no connection,  *)
(* timeout, HTTP error, a body that is no JSON), or the body is JSON that  *)
(* is no list, or a list whose items are records or not.                   *)
(* search.sent logs every request issued: the keyword's index, the number  *)
(* of results held when it was issued, and the server's answer.            *)
(***************************************************************************)
HitItem(name) == [isDict |-> TRUE, name |-> name]
JunkItem == [isDict |-> FALSE, name |-> ""]
ServerAnswers ==
    { [kind |-> "error", items |-> <<>>],
      [kind |-> "object", items |-> <<>>],
      [kind |-> "list", items |-> <<>>],
      [kind |-> "list", items |-> <<HitItem("x")>>],
      [kind |-> "list", items |-> <<HitItem("x"), JunkItem, HitItem("y")>>],
      [kind |-> "list", items |-> <<HitItem("x"), HitItem("y"), HitItem("z")>>] }

SearchKeywordPool == {Str(kA), Str(<<" ", "B", " ">>), Str(<<" ">>), Other}
SearchLists == SeqsUpTo(SearchKeywordPool, MaxKeywords)

\* lines 990-998: the payload's records, tagged, until the total is reached
RECURSIVE AppendAll(_, _, _, _)
AppendAll(results, items, pattern, max_total_results) ==
    IF items = <<>> THEN results
    ELSE IF ~Head(items).isDict
    THEN AppendAll(results, Tail(items), pattern, max_total_results)
    ELSE AppendAll(Append(results, [item |-> Head(items), _pattern |-> pattern]),
                   Tail(items), pattern, max_total_results)
RECURSIVE AppendItems(_, _, _, _)
AppendItems(results, items, pattern, max_total_results) ==
    IF items = <<>> THEN results
    ELSE IF ~Head(items).isDict
    THEN AppendItems(results, Tail(items), pattern, max_total_results)
    ELSE LET grown == Append(results, [item |-> Head(items), _pattern |-> pattern])
         IN  IF Len(grown) >= max_total_results THEN grown
             ELSE AppendItems(grown, Tail(items), pattern, max_total_results)

\* lines 981-1000: one request; its failure is logged and ignored
AfterRequest(results, pattern, answer, max_total_results) ==
    IF answer.kind = "list"
    THEN AppendItems(results, answer.items, pattern, max_total_results)
    ELSE results

InitSearch ==
    /\ PROJECT = UnloadedProject
    /\ loaded = FALSE
    /\ doc = NoJson("none")
    /\ req = NoRequest
    /\ resp = NoResponse
    /\ tree = NoTree
    /\ paths = NoPaths
    /\ FlatIdle /\ ConnIdle /\ ChatIdle
    /\ \E kws \in SearchLists, max_total_results \in -1..MaxTotal :
          search = [pc |-> "loop", keywords |-> kws,
                    max_total_results |-> max_total_results, i |-> 1,
                    results |-> <<>>, sent |-> <<>>]

notSearch ==
    <<PROJECT, loaded, doc, req, resp, tree, paths, flatVars, connVars, chatVars>>

\* one pass of "for kw in keywords" (lines 972-1000)
SearchKeyword ==
    /\ search.pc = "loop"
    /\ search.i <= Len(search.keywords)
    /\ LET kw == search.keywords[search.i]
           pattern == Strip(kw.text)
       IN  IF Len(search.results) >= search.max_total_results
           THEN search' = [search EXCEPT !.pc = "returned"]
           ELSE IF kw.tag # "str" \/ pattern = <<>>
           THEN search' = [search EXCEPT !.i = @ + 1]
           ELSE \E answer \in ServerAnswers :
                   search' =
                     [search EXCEPT
                        !.i = @ + 1,
                        !.results = AfterRequest(@, pattern, answer,
                                                 search.max_total_results),
                        !.sent = Append(@, [k |-> search.i,
                                            had |-> Len(search.results),
                                            answer |-> answer])]
    /\ UNCHANGED notSearch

\* the loop is over (lines 967-968, 1002-1003)
SearchReturn ==
    /\ search.pc = "loop"
    /\ search.i > Len(search.keywords)
    /\ search' = [search EXCEPT !.pc = "returned"]
    /\ UNCHANGED notSearch

NextSearch ==
    \/ SearchKeyword
    \/ SearchReturn

SpecSearch == InitSearch /\ [][NextSearch]_vars

(***************************************************************************)
(* Properties.                                                             *)
(***************************************************************************)
IsPrefix(a, b) == Len(a) <= Len(b) /\ SubSeq(b, 1, Len(a)) = a
SmallerOf(a, b) == IF a < b THEN a ELSE b

BroadAnswered == req.op = "broad" /\ resp.http = 200
LookupAnswered == req.op = "lookup" /\ resp.http = 200
TypeRefsAnswered == req.op = "typeRefs" /\ resp.http = 200
InRange(param) ==
    param.kind = "int" /\ 1 <= param.val /\ param.val <= 500

\* what a scan of the whole corpus finds: every visited entity the pattern
\* matches, in the order visited
ExhaustiveVisits(P, regex) ==
    LET matching(v) == v.kind # "crash" /\ VisitMatches(P, regex, v)
    IN  SelectSeq(BroadVisits(P), matching)
ExhaustiveHits(P, regex) ==
    LET found == ExhaustiveVisits(P, regex)
    IN  [i \in 1..Len(found) |-> VisitHit(P, found[i])]

\* C1: for maxResults = k with 1 <= k <= 500, broad_search returns at most
\* k hits.
C1_AtMostK ==
    (BroadAnswered /\ InRange(req.maxResults))
        => Len(resp.result.hits) <= req.maxResults.val
\* the cap cut the scan short: k hits are returned although more match
C1_Witness ==
    /\ BroadAnswered /\ InRange(req.maxResults)
    /\ Len(resp.result.hits) = req.maxResults.val
    /\ Len(ExhaustiveHits(PROJECT, req.pattern)) > req.maxResults.val

\* C2: for 1 <= k <= 500 the result is the first min(k, n) hits of the
\* exhaustive scan (n the number of matches), and the result for k is a
\* prefix of the result for every k' >= k.
C2_FirstHitsOfExhaustiveScan ==
    (BroadAnswered /\ InRange(req.maxResults)) =>
        LET all == ExhaustiveHits(PROJECT, req.pattern)
            k == req.maxResults.val
        IN  /\ resp.result.hits = SubSeq(all, 1, SmallerOf(k, Len(all)))
            /\ \A k2 \in (k..(MaxK + 1)) \cup {MaxResultsCap} :
                  LET other == BroadSearch(PROJECT, req.pattern, k2)
                  IN  other.status = "ok" => IsPrefix(resp.result.hits, other.hits)
\* the scan stopped in the middle of a type's members
C2_Witness ==
    /\ BroadAnswered /\ req.maxResults = IntParam(3)
    /\ Len(resp.result.hits) = 3
    /\ resp.result.hits[3].kind = "member"
    /\ Len(ExhaustiveHits(PROJECT, req.pattern)) > 3

RoleRank(role) ==
    CASE role = "" -> 0 [] role = "Fields" -> 1 [] role = "Methods" -> 2
      [] role = "Properties" -> 3 [] role = "Events" -> 4
\* a is scanned before b: earlier module; the module before its types; earlier
\* type; the type before its members; earlier role; earlier member of the role
ScannedBefore(a, b) ==
    \/ a.m < b.m
    \/ a.m = b.m /\ a.t < b.t
    \/ a.m = b.m /\ a.t = b.t /\ RoleRank(a.role) < RoleRank(b.role)
    \/ a.m = b.m /\ a.t = b.t /\ a.role = b.role /\ a.j < b.j

\* C3: hits come in scan order: modules in declaration order, the module
\* hit before its types' and members' hits, types in declaration order, a
\* type's hit before its members', members by role (fields, methods,
\* properties, events) and in declaration order within a role.
C3_HitsInScanOrder ==
    BroadAnswered =>
        /\ Len(resp.result.pos) = Len(resp.result.hits)
        /\ \A i \in 1..Len(resp.result.pos) :
              /\ resp.result.hits[i] = VisitHit(PROJECT, resp.result.pos[i])
              /\ resp.result.hits[i].kind = resp.result.pos[i].kind
        /\ \A i, j \in 1..Len(resp.result.pos) :
              i < j => ScannedBefore(resp.result.pos[i], resp.result.pos[j])
\* hits of two modules, a module hit, a type hit and member hits of two
\* roles and of two members of one role in one answer
C3_Witness ==
    /\ BroadAnswered
    /\ \E a \in Range(resp.result.pos) : a.kind = "module" /\ a.m = 1
    /\ \E g \in Range(resp.result.pos) : g.m = 2
    /\ \E b \in Range(resp.result.pos) :
          LET inType(x, role) ==
                  x.kind = "member" /\ x.m = 1 /\ x.t = b.t /\ x.role = role
          IN  /\ b.kind = "type" /\ b.m = 1
              /\ \E c \in Range(resp.result.pos) : inType(c, "Fields")
              /\ \E d, e \in Range(resp.result.pos) :
                    inType(d, "Methods") /\ inType(e, "Methods") /\ e.j # d.j
              /\ \E f \in Range(resp.result.pos) : inType(f, "Events")

(***************************************************************************)
(* clear_lookup                                                            *)
(***************************************************************************)
\* the types whose full name equals the identifier, in corpus order
ExactSet(P, ident) ==
    LET equal(it) == Get(TypeAt(P, it), "FullName") = ident
    IN  SelectSeq(IterTypes(P), equal)
\* the types whose full name contains the identifier, whatever the case
ContainingSet(P, ident) ==
    LET inside(it) == Contains(Lower(ident), Lower(Get(TypeAt(P, it), "FullName")))
    IN  SelectSeq(IterTypes(P), inside)
DecidingSet(P, ident) ==
    IF ExactSet(P, ident) # <<>> THEN ExactSet(P, ident)
    ELSE ContainingSet(P, ident)

\* C4: when some type's full name equals the trimmed identifier, only the
\* exact matches decide: no type that merely contains the identifier is the
\* match or a candidate, and one exact match gives ok for that type.
C4_ExactMatchesAloneDecide ==
    LookupAnswered =>
        LET ident == TrimIdentifier(req.identifier)
            exact == ExactSet(PROJECT, ident)
            body == resp.result.body
        IN  exact # <<>> =>
              /\ resp.result.pos = exact
              /\ body.status = "ok" => body.typeFullName = ident
              /\ body.status = "ambiguous" =>
                    \A i \in 1..Len(body.candidates) :
                        body.candidates[i].typeFullName = ident
              /\ Len(exact) = 1 =>
                    /\ body.status = "ok"
                    /\ body.typeFullName = ident
                    /\ body.sourcePath =
                          Get(TypeAt(PROJECT, exact[1]), "SourceFilePath")
\* one exact match beside a type that only contains the identifier
C4_Witness ==
    /\ LookupAnswered
    /\ resp.result.body.status = "ok"
    /\ Len(ExactSet(PROJECT, TrimIdentifier(req.identifier))) = 1
    /\ Len(ContainingSet(PROJECT, TrimIdentifier(req.identifier))) > 1

\* C5: with S the exact matches if there are any and otherwise the types
\* whose full name contains the identifier case-insensitively, the status is
\* not_found iff S is empty, ok iff S has one element, ambiguous iff it has
\* more; an ambiguous answer lists all of S in corpus order.
C5_StatusByCardinality ==
    LookupAnswered =>
        LET S == DecidingSet(PROJECT, TrimIdentifier(req.identifier))
            body == resp.result.body
        IN  /\ body.status = "not_found" <=> Len(S) = 0
            /\ body.status = "ok" <=> Len(S) = 1
            /\ body.status = "ambiguous" <=> Len(S) > 1
            /\ body.status = "ambiguous" =>
                  /\ resp.result.pos = S
                  /\ Len(body.candidates) = Len(S)
                  /\ \A i \in 1..Len(S) :
                        /\ body.candidates[i].typeFullName =
                              Get(TypeAt(PROJECT, S[i]), "FullName")
                        /\ body.candidates[i].moduleName =
                              Get(ModuleAt(PROJECT, S[i]), "Name")
\* two types with the identical full name are both listed
C5_Witness ==
    /\ LookupAnswered
    /\ resp.result.body.status = "ambiguous"
    /\ Len(ExactSet(PROJECT, TrimIdentifier(req.identifier))) = 2
    /\ Len(resp.result.body.candidates) = 2
    /\ resp.result.body.candidates[1].typeFullName =
          resp.result.body.candidates[2].typeFullName

(***************************************************************************)
(* find_type_references                                                    *)
(***************************************************************************)
\* C6: no hit of find_type_references is a type whose name or full name
\* equals the identifier.
C6_NeverReturnsTarget ==
    TypeRefsAnswered =>
        \A i \in 1..Len(resp.result.pos) :
            LET t == TypeAt(PROJECT, resp.result.pos[i])
                ident == TrimIdentifier(req.identifier)
            IN  /\ Get(t, "Name") # ident
                /\ Get(t, "FullName") # ident

\* type a comes before type b in the scan
TypeBefore(a, b) == a.m < b.m \/ (a.m = b.m /\ a.t < b.t)
\* the cap was not reached before the type at it was scanned
ScannedInTime(it) ==
    \/ Len(resp.result.hits) < resp.result.cap
    \/ ~TypeBefore(resp.result.pos[Len(resp.result.pos)], it)
\* the methods of t whose signature contains the name
MethodsNaming(name, t) ==
    {ref \in Range(IterMembers(t)) :
        /\ ref.role = "Methods"
        /\ Contains(Lower(name), Lower(Get(MemberAt(t, ref), "Signature")))}
\* the answer has a typeRef hit for the type at it with a reason written for
\* the member ref that quotes its signature
Cites(it, ref) ==
    \E i \in 1..Len(resp.result.pos) :
        /\ resp.result.pos[i] = it
        /\ resp.result.hits[i].kind = "typeRef"
        /\ \E r \in 1..Len(resp.result.hits[i].reasons) :
              /\ resp.result.why[i][r] = ref
              /\ Contains(Get(MemberAt(TypeAt(PROJECT, it), ref), "Signature"),
                          resp.result.hits[i].reasons[r])
\* the reasons find_type_references has for t before it reaches member ref
ReasonsBefore(tokens, t, ref) ==
    LET ms == IterMembers(t)
        at == CHOOSE k \in 1..Len(ms) : ms[k] = ref
        refers(k) == \/ ContainsToken(tokens, Get(MemberAt(t, ms[k]), "Signature"))
                     \/ ContainsToken(tokens, Get(MemberAt(t, ms[k]), "FullName"))
    IN  Cardinality({k \in 1..(at - 1) : refers(k)})
        + (IF ContainsToken(tokens, Get(t, "BaseType")) THEN 1 ELSE 0)

IsModuleList(listValue) ==
    /\ listValue.tag = "list"
    /\ \A i \in 1..Len(listValue.items) : listValue.items[i].isDict
\* the modules field the loader would take from a document
ModulesField(d) ==
    IF d.root.Modules.tag # "absent" THEN d.root.Modules
    ELSE d.root.Project.Modules
\* absent, unparseable, or not of a recognised shape
Degraded(d) ==
    \/ d.kind # "json"
    \/ ~d.root.isDict
    \/ d.root.Modules.tag = "absent" /\ d.root.Project.tag # "dict"
    \/ ~IsModuleList(ModulesField(d))

\* C9: after a degraded document is loaded the corpus has no modules and
\* every broad search on it answers with no hits.
C9_DegradedLoadIsEmpty ==
    (loaded /\ Degraded(doc)) =>
        /\ OrEmpty(PROJECT.Modules) = ListOf(<<>>)
        /\ (/\ req.op = "broad"
            /\ req.pattern.kind \in {"sub", "anchored"}
            /\ req.maxResults.kind # "junk")
           => (resp.http = 200 /\ resp.result.hits = <<>>)

\* the cap the specification gives: 500 for absent, zero and negative
CapAsStated(param) ==
    IF param.kind = "absent" \/ param.val <= 0 THEN 500
    ELSE IF param.val <= 500 THEN param.val ELSE 500
\* the cap with a negative maxResults giving 1
CapAmended(param) ==
    IF param.kind = "absent" \/ param.val = 0 THEN 500
    ELSE IF param.val < 0 THEN 1
    ELSE IF param.val <= 500 THEN param.val ELSE 500
\* an answered search whose result is cut at cap
AnsweredWithCap(cap) ==
    /\ BroadAnswered =>
          LET all == ExhaustiveHits(PROJECT, req.pattern)
          IN  /\ resp.result.cap = cap
              /\ resp.result.hits = SubSeq(all, 1, SmallerOf(cap, Len(all)))
    /\ TypeRefsAnswered =>
          /\ resp.result.cap = cap
          /\ Len(resp.result.hits) <= cap

\* C10 as stated: the cap is 500 for an absent, zero or negative maxResults,
\* maxResults itself in 1..500, 500 above; always within 1..500.
C10_NegativeGivesDefault ==
    (BroadAnswered \/ TypeRefsAnswered) =>
        /\ AnsweredWithCap(CapAsStated(req.maxResults))
        /\ resp.result.cap \in 1..500

\* C10: the cap is 500 for an absent or zero maxResults, 1 for a negative
\* one, maxResults itself in 1..500, 500 above; always within 1..500.
C10_NegativeGivesOne ==
    (BroadAnswered \/ TypeRefsAnswered) =>
        /\ AnsweredWithCap(CapAmended(req.maxResults))
        /\ resp.result.cap \in 1..500
\* a negative maxResults cuts the result to one hit
C10_Witness ==
    /\ BroadAnswered
    /\ req.maxResults = IntParam(-1)
    /\ Len(resp.result.hits) = 1
    /\ Len(ExhaustiveHits(PROJECT, req.pattern)) > 1

(***************************************************************************)
(* build_paths_from_tree                                                   *)
(***************************************************************************)
IsRootNode(n) == n.parent = Null \/ n.parent = Str(<<>>)
\* the parent of a node that is no root
ParentIndex(t, i) == CHOOSE j \in 1..Len(t) : t[j].keyword = t[i].parent
\* the nodes from the root down to node i; empty when no root is found
\* within fuel steps
RECURSIVE PathTo(_, _, _)
PathTo(t, i, fuel) ==
    IF IsRootNode(t[i]) THEN <<i>>
    ELSE IF fuel = 0 THEN <<>>
    ELSE LET up == PathTo(t, ParentIndex(t, i), fuel - 1)
         IN  IF up = <<>> THEN <<>> ELSE Append(up, i)
\* a forest: every entry a record with a trimmed non-empty keyword, keywords
\* distinct, every parent null, empty or the keyword of an entry, no cycle
WellFormedTree(t) ==
    /\ t # <<>>
    /\ \A i \in 1..Len(t) :
          /\ t[i].isDict
          /\ t[i].keyword.tag = "str"
          /\ t[i].keyword.text # <<>>
          /\ Strip(t[i].keyword.text) = t[i].keyword.text
          /\ t[i].parent.tag \in {"null", "str"}
    /\ \A i, j \in 1..Len(t) : i # j => t[i].keyword # t[j].keyword
    /\ \A i \in 1..Len(t) :
          IsRootNode(t[i]) \/ \E j \in 1..Len(t) : t[j].keyword = t[i].parent
    /\ \A i \in 1..Len(t) : PathTo(t, i, Len(t)) # <<>>
Leaves(t) ==
    {i \in 1..Len(t) :
        \A j \in 1..Len(t) : IsRootNode(t[j]) \/ ParentIndex(t, j) # i}
\* where the builder takes root i among the roots
RootPosition(t, i) ==
    CHOOSE k \in 1..Len(Roots(NormalizeTree(t))) :
        Roots(NormalizeTree(t))[k] = t[i].keyword.text
\* leaf a is reached before leaf b going depth first, children in list order
ReachedBefore(t, a, b) ==
    LET pa == PathTo(t, a, Len(t))
        pb == PathTo(t, b, Len(t))
        d == CHOOSE k \in 1..Len(pa) :
                /\ k <= Len(pb)
                /\ pa[k] # pb[k]
                /\ \A h \in 1..(k - 1) : pa[h] = pb[h]
    IN  IF d = 1 THEN RootPosition(t, pa[1]) < RootPosition(t, pb[1])
        ELSE pa[d] < pb[d]
RECURSIVE InDepthFirstOrder(_, _)
InDepthFirstOrder(t, leaves) ==
    IF leaves = {} THEN <<>>
    ELSE LET first == CHOOSE a \in leaves :
                          \A b \in leaves \ {a} : ReachedBefore(t, a, b)
         IN  <<first>> \o InDepthFirstOrder(t, leaves \ {first})
RawKeyword(current_kw, parent_kw) == current_kw
\* one phrase per leaf: the words of the path from the root, joined by spaces
LeafPhrases(t, Word(_, _)) ==
    LET order == InDepthFirstOrder(t, Leaves(t))
        path(i) == PathTo(t, i, Len(t))
        words(i) == [k \in 1..Len(path(i)) |->
                        Word(t[path(i)[k]].keyword.text, t[path(i)[k]].parent)]
    IN  [k \in 1..Len(order) |-> JoinSpace(words(order[k]))]
ExamplePhrases ==
    << sPlayer \o <<" ">> \o sHealth,
       sPlayer \o <<" ">> \o sAttack \o <<" ">> \o sPower >>

\* C8 as stated: for a forest the result is one phrase per leaf, the
\* keywords of the path from the root joined by spaces, leaves depth first;
\* the example tree gives "Player Health", "Player Attack Power".
C8_PhrasesJoinKeywords ==
    paths.status # "none" =>
        /\ WellFormedTree(tree) =>
              /\ paths.status = "ok"
              /\ paths.paths = LeafPhrases(tree, RawKeyword)
        /\ tree = ExampleTree => paths.paths = ExamplePhrases

\* C8: for a forest the result is one phrase per leaf, the keywords of the
\* path from the root, each without the parent's keyword at its front where
\* the builder removes it, joined by spaces, leaves depth first; the
\* example tree gives "Player Health", "Player Attack Power".
C8_PhrasesJoinDisplayKeywords ==
    paths.status # "none" =>
        /\ WellFormedTree(tree) =>
              /\ paths.status = "ok"
              /\ paths.paths = LeafPhrases(tree, DisplayKeyword)
        /\ tree = ExampleTree => paths.paths = ExamplePhrases
\* a forest with an inner node, two leaves under different parents and a
\* second root
C8_Witness ==
    /\ paths.status = "ok"
    /\ WellFormedTree(tree)
    /\ Len(paths.paths) = 2
    /\ \E i, j \in 1..Len(tree) :
          /\ ~IsRootNode(tree[j]) /\ ParentIndex(tree, j) = i
          /\ tree[i].keyword.text = kA /\ tree[j].keyword.text = kAB
    /\ paths.paths[1] = kA \o <<" ">> \o kB

(***************************************************************************)
(* Errors and result fields                                                *)
(***************************************************************************)
\* the request reached broad_search: maxResults parsed, a pattern was given
BroadCalled ==
    /\ req.op = "broad"
    /\ req.maxResults.kind # "junk"
    /\ req.pattern.kind # "missing"

\* C11: broad_search fails with the invalid-pattern error, returning no
\* hits, when the pattern does not compile, and signals no other error: for
\* every valid pattern, every maxResults and every loaded corpus it answers
\* with a hit sequence.
C11_OnlyInvalidPatternFails ==
    BroadCalled =>
        /\ req.pattern.kind = "invalid" =>
              /\ resp.http = 400
              /\ resp.result.status = "ValueError"
              /\ resp.result.hits = <<>>
        /\ req.pattern.kind # "invalid" =>
              /\ resp.http = 200
              /\ resp.result.status = "ok"

\* C12: an ok answer of clear_lookup carries the module name, assembly path,
\* type full name and source path of the single match.
C12_OkCarriesFourFields ==
    (LookupAnswered /\ resp.result.body.status = "ok") =>
        LET body == resp.result.body
            mod == ModuleAt(PROJECT, resp.result.pos[1])
            t == TypeAt(PROJECT, resp.result.pos[1])
        IN  /\ {"moduleName", "assemblyPath", "typeFullName", "sourcePath"}
                  \subseteq DOMAIN body
            /\ body.moduleName = Get(mod, "Name")
            /\ body.assemblyPath = AssemblyPathOf(mod)
            /\ body.typeFullName = Get(t, "FullName")
            /\ body.sourcePath = Get(t, "SourceFilePath")

\* nothing is left of the identifier once surrounding whitespace and then
\* all leading and trailing double quotes are removed
OnlyQuotes(identifier) ==
    \A i \in 1..Len(Strip(identifier)) : Strip(identifier)[i] = Quote
RECURSIVE DropQuotes(_)
DropQuotes(s) ==
    IF s # <<>> /\ Head(s) = Quote THEN DropQuotes(Tail(s))
    ELSE IF s # <<>> /\ s[Len(s)] = Quote THEN DropQuotes(SubSeq(s, 1, Len(s) - 1))
    ELSE s
Unquoted(identifier) == DropQuotes(Strip(identifier))

TypeRefsCalled == req.op = "typeRefs" /\ req.maxResults.kind # "junk"
InvalidInput ==
    resp.http = 400 /\ resp.result.status \in {"missing", "ValueError"}

C15_OneToTenReasons ==
    TypeRefsAnswered =>
        \A i \in 1..Len(resp.result.hits) :
            /\ Len(resp.result.hits[i].reasons) >= 1
            /\ Len(resp.result.hits[i].reasons) <= 10
            /\ Len(resp.result.why[i]) = Len(resp.result.hits[i].reasons)
\* a type with a referring base type and eleven referring members is
\* returned with ten reasons
C15_Witness ==
    /\ TypeRefsAnswered
    /\ \E i \in 1..Len(resp.result.hits) :
          LET t == TypeAt(PROJECT, resp.result.pos[i])
          IN  /\ Len(resp.result.hits[i].reasons) = 10
              /\ resp.result.why[i][1] = BaseRef
              /\ Len(IterMembers(t)) > 10
              /\ ReasonsBefore(Tokens(TrimIdentifier(req.identifier),
                                      TargetTypes(PROJECT, TrimIdentifier(req.identifier))),
                               t, IterMembers(t)[Len(IterMembers(t))]) > 10

\* what the reference scan yields when nothing stops it: every type, in
\* corpus order, that is not skipped and has a reason
UncappedRefs(P, ident) ==
    LET targets == TargetTypes(P, ident)
        tokens == Tokens(ident, targets)
        found(it) ==
            /\ ~IsSkipped(TargetFullNames(targets), TypeAt(P, it))
            /\ TypeReasons(tokens, TypeAt(P, it)).reasons # <<>>
        kept == SelectSeq(IterTypes(P), found)
    IN  [i \in 1..Len(kept) |->
            TypeRefHit(ModuleAt(P, kept[i]), TypeAt(P, kept[i]),
                       TypeReasons(tokens, TypeAt(P, kept[i])).reasons)]

\* C16: find_type_references returns at most the effective cap of hits, and
\* its hits are a prefix, in module-then-type order, of the hits of the
\* uncapped reference scan.
C16_RefsArePrefixOfUncapped ==
    TypeRefsAnswered =>
        LET all == UncappedRefs(PROJECT, TrimIdentifier(req.identifier))
            cap == CapAmended(req.maxResults)
        IN  /\ Len(resp.result.hits) <= cap
            /\ IsPrefix(resp.result.hits, all)
            /\ Len(resp.result.hits) < cap => resp.result.hits = all
            /\ \A i, j \in 1..Len(resp.result.pos) :
                  i < j => TypeBefore(resp.result.pos[i], resp.result.pos[j])
\* the scan stopped at the cap with referring types left
C16_Witness ==
    /\ TypeRefsAnswered
    /\ req.maxResults = IntParam(1)
    /\ Len(resp.result.hits) = 1
    /\ Len(UncappedRefs(PROJECT, TrimIdentifier(req.identifier))) > 1

(***************************************************************************)
(* The corpus after the load                                               *)
(***************************************************************************)
\* what do_GET answers to request r on corpus P
AnswerTo(P, r) ==
    CASE r.op = "broad" -> HandleSearchBroad(P, r.pattern, r.maxResults)
      [] r.op = "lookup" -> HandleLookupClear(P, r.identifier)
      [] r.op = "typeRefs" -> HandleSearchTypeRefs(P, r.identifier, r.maxResults)

\* C17: once loaded, no step changes the corpus: it stays what the loader
\* made of the document, whether the call succeeds or fails, and the answer
\* to a request is a function of the corpus and the request's arguments, so
\* the same query gives the same result each time.
C17_CorpusFrozen ==
    [][loaded =>
          /\ PROJECT' = PROJECT
          /\ PROJECT' = ReadInitialProject(doc')
          /\ req' # NoRequest => resp' = AnswerTo(PROJECT, req')]_vars
\* a failed call and a non-empty corpus that is still the loaded one
C17_Witness ==
    /\ loaded
    /\ req.op = "broad" /\ req.pattern.kind = "invalid" /\ resp.http = 400
    /\ PROJECT = ReadInitialProject(doc)
    /\ PROJECT.Modules.tag = "list" /\ Len(PROJECT.Modules.items) = 2

(***************************************************************************)
(* The tokens of find_type_references                                      *)
(***************************************************************************)
\* target discovery as specified: the name equals the identifier, or the full
\* name equals or contains it, whatever the case
DiscoveredTargets(P, ident) ==
    LET its == IterTypes(P)
        named(t) ==
            \/ Get(t, "Name") # <<>> /\ Lower(Get(t, "Name")) = Lower(ident)
            \/ Get(t, "FullName") # <<>>
               /\ Contains(Lower(ident), Lower(Get(t, "FullName")))
    IN  {TypeAt(P, its[k]) : k \in {i \in 1..Len(its) : named(TypeAt(P, its[i]))}}
\* {identifier} with the names and full names of all targets, less the empty
\* string
SpecifiedTokens(P, ident) ==
    ({ident} \cup {Get(t, "Name") : t \in DiscoveredTargets(P, ident)}
             \cup {Get(t, "FullName") : t \in DiscoveredTargets(P, ident)})
    \ {<<>>}
\* str contains one of the tokens, whatever the case
Mentions(tokens, str) ==
    \E tok \in tokens : Contains(Lower(tok), Lower(str))
\* the base type of t, or the signature or full name of a member of t,
\* mentions a token
RefersBy(tokens, t) ==
    \/ Mentions(tokens, Get(t, "BaseType"))
    \/ \E ref \in Range(IterMembers(t)) :
          \/ Mentions(tokens, Get(MemberAt(t, ref), "Signature"))
          \/ Mentions(tokens, Get(MemberAt(t, ref), "FullName"))

\* C18: the hits of find_type_references are, up to the cap, the types not
\* skipped as targets whose base type or a member's signature or full name
\* contains a token of {identifier} + target names + target full names (less
\* the empty string); so, when no type is a target, every type that mentions
\* the identifier is a hit if the cap is not reached before it.
C18_IdentifierIsAlwaysAToken ==
    TypeRefsAnswered =>
        LET ident == TrimIdentifier(req.identifier)
            targets == DiscoveredTargets(PROJECT, ident)
            tokens == SpecifiedTokens(PROJECT, ident)
            fulls == {Get(t, "FullName") : t \in targets} \ {<<>>}
            due(it) == /\ Get(TypeAt(PROJECT, it), "FullName") \notin fulls
                       /\ RefersBy(tokens, TypeAt(PROJECT, it))
            expected == SelectSeq(IterTypes(PROJECT), due)
        IN  /\ resp.result.pos =
                  SubSeq(expected, 1, SmallerOf(resp.result.cap, Len(expected)))
            /\ targets = {} =>
                  \A k \in 1..Len(IterTypes(PROJECT)) :
                      (/\ RefersBy({ident}, TypeAt(PROJECT, IterTypes(PROJECT)[k]))
                       /\ ScannedInTime(IterTypes(PROJECT)[k]))
                      => \E i \in 1..Len(resp.result.pos) :
                            resp.result.pos[i] = IterTypes(PROJECT)[k]
\* no type is a target, and a type that mentions the identifier is returned
C18_Witness ==
    /\ TypeRefsAnswered
    /\ DiscoveredTargets(PROJECT, TrimIdentifier(req.identifier)) = {}
    /\ resp.result.hits # <<>>
    /\ RefersBy({TrimIdentifier(req.identifier)},
                TypeAt(PROJECT, resp.result.pos[1]))

(***************************************************************************)
(* Roots and the de-duplication rule of build_paths_from_tree              *)
(***************************************************************************)
\* leaf a is reached before leaf b going depth first when roots, like
\* children, are taken in the order of the node list
ReachedBeforeInListOrder(t, a, b) ==
    LET pa == PathTo(t, a, Len(t))
        pb == PathTo(t, b, Len(t))
        d == CHOOSE k \in 1..Len(pa) :
                /\ k <= Len(pb)
                /\ pa[k] # pb[k]
                /\ \A h \in 1..(k - 1) : pa[h] = pb[h]
    IN  pa[d] < pb[d]
RECURSIVE InListOrder(_, _)
InListOrder(t, leaves) ==
    IF leaves = {} THEN <<>>
    ELSE LET first == CHOOSE a \in leaves :
                          \A b \in leaves \ {a} : ReachedBeforeInListOrder(t, a, b)
         IN  <<first>> \o InListOrder(t, leaves \ {first})
\* the phrases of the leaves, roots in list order
PhrasesRootsInListOrder(t) ==
    LET order == InListOrder(t, Leaves(t))
        path(i) == PathTo(t, i, Len(t))
        words(i) == [k \in 1..Len(path(i)) |->
                        DisplayKeyword(t[path(i)[k]].keyword.text,
                                       t[path(i)[k]].parent)]
    IN  [k \in 1..Len(order) |-> JoinSpace(words(order[k]))]

\* C19: the nodes whose parent is null or empty are the roots, taken in the
\* order in which they appear in the node list whether the parent is null
\* or empty; all phrases of an earlier root precede those of a later root.
C19_RootsInListOrder ==
    (paths.status # "none" /\ WellFormedTree(tree)) =>
        /\ paths.status = "ok"
        /\ paths.paths = PhrasesRootsInListOrder(tree)

Separators == {"_", " ", "."}
RECURSIVE DropSeparators(_)
DropSeparators(s) ==
    IF s # <<>> /\ Head(s) \in Separators THEN DropSeparators(Tail(s)) ELSE s
\* the de-duplication rule as specified: a child whose lowercase form starts
\* with its parent's loses that prefix and the separators after it, unless
\* nothing would be left
DedupedAsSpecified(child, parent) ==
    LET hasParent == parent.tag = "str" /\ parent.text # <<>>
        n == Len(parent.text)
        starts == /\ Len(child) >= n
                  /\ Lower(SubSeq(child, 1, n)) = Lower(parent.text)
        rest == DropSeparators(SubSeq(child, n + 1, Len(child)))
    IN  IF hasParent /\ starts /\ rest # <<>> THEN rest ELSE child
SpeedPhrases ==
    << sPlayer \o <<" ">> \o sHealth,
       sPlayer \o <<" ">> \o sAttack \o <<" ">> \o sSpeed >>

\* C20: a child whose lowercase form starts with its parent's is appended
\* without that prefix and without the '_', ' ' or '.' that follow it, or
\* unchanged if nothing would be left; a child that does not start with its
\* parent is appended unchanged; {AttackSpeed, parent Attack} gives
\* "Attack Speed".
C20_ParentPrefixIsRemoved ==
    paths.status # "none" =>
        /\ WellFormedTree(tree) =>
              paths.paths = LeafPhrases(tree, DedupedAsSpecified)
        /\ tree = ExampleTreeSpeed => paths.paths = SpeedPhrases
\* under A: A_.B loses the prefix and both separators, a is kept whole
C20_Witness ==
    /\ tree = << Node(Str(kA), Null), Node(Str(kASepB), Str(kA)),
                 Node(Str(klowA), Str(kA)) >>
    /\ paths.status = "ok"
    /\ paths.paths = << kA \o <<" ">> \o kB, kA \o <<" ">> \o klowA >>

(***************************************************************************)
(* The flat form of the path builder (claims C21, C22).                    *)
(***************************************************************************)
FlatBuilt == phrases.status # "none"
NoSpaces(kws) == \A i \in 1..Len(kws) : " " \notin Range(kws[i])

\* the position of the root: the first keyword that starts with an
\* upper-case letter, else the first keyword
RootIndex(kws) ==
    IF \E i \in 1..Len(kws) : kws[i] # <<>> /\ IsUpperChar(kws[i][1])
    THEN Min({i \in 1..Len(kws) : kws[i] # <<>> /\ IsUpperChar(kws[i][1])})
    ELSE 1
\* the keywords left when the one at position r is taken out
WithoutIndex(kws, r) ==
    [i \in 1..(Len(kws) - 1) |-> IF i < r THEN kws[i] ELSE kws[i + 1]]
\* the root alone, then "<root> <attr>" for each attr
RootThenAttrs(root, attrs) ==
    <<root>> \o [i \in 1..Len(attrs) |-> root \o <<" ">> \o attrs[i]]
\* the keywords that differ from the root
OtherThan(kws, root) ==
    LET at == {i \in 1..Len(kws) : kws[i] # root}
        nth(S, n) == CHOOSE i \in S : Cardinality({j \in S : j <= i}) = n
    IN  [n \in 1..Cardinality(at) |-> kws[nth(at, n)]]

\* C21 as stated: for a non-empty flat list without spaces the result is
\* the root followed by one phrase "<root> <attr>" for each of the other
\* keywords in input order, so it has as many phrases as the input has
\* keywords.
C21_OnePhrasePerKeyword ==
    (FlatBuilt /\ keywords # <<>> /\ NoSpaces(keywords)) =>
        LET r == RootIndex(keywords)
        IN  /\ phrases.paths = RootThenAttrs(keywords[r], WithoutIndex(keywords, r))
            /\ Len(phrases.paths) = Len(keywords)

\* C21 amended: for a non-empty flat list without spaces the result is
\* the root followed by one phrase "<root> <attr>" for each keyword that
\* differs from the root, in input order; it has as many phrases as the
\* input has keywords exactly when the root's text occurs once.
C21_OnePhrasePerOtherKeyword ==
    (FlatBuilt /\ keywords # <<>> /\ NoSpaces(keywords)) =>
        LET root == keywords[RootIndex(keywords)]
            copies == Cardinality({i \in 1..Len(keywords) : keywords[i] = root})
        IN  /\ phrases.paths = RootThenAttrs(root, OtherThan(keywords, root))
            /\ Len(phrases.paths) = Len(keywords) - copies + 1

C21_Witness ==
    /\ FlatBuilt
    /\ keywords = <<klowA, kB, <<"b">> >>
    /\ phrases.paths = <<kB, <<"B", " ", "a">>, <<"B", " ", "b">> >>

\* C22: when some keyword of the flat input contains a space the input is
\* returned unchanged; and a result of two or more phrases is a fixed point
\* of the flat builder.
C22_SpacedInputIsReturned ==
    FlatBuilt =>
        /\ ~NoSpaces(keywords) => phrases.paths = keywords
        /\ Len(phrases.paths) >= 2 =>
              BuildKeywordPaths(phrases.paths).paths = phrases.paths

C22_Witness ==
    /\ FlatBuilt
    /\ keywords = <<klowA, <<"A", " ", "B">>, kB>>
    /\ phrases.paths = keywords
    /\ BuildKeywordPaths(phrases.paths).paths = keywords

(***************************************************************************)
(* Every request is answered (claim C23)                                   *)
(***************************************************************************)
\* C23: every GET to /api/search/broad, /api/lookup/clear or
\* /api/search/typeRefs, whatever its query parameters (a missing, empty or
\* non-integer maxResults included), is answered with one JSON response, a
\* result or an error object, and no exception leaves the handler.
C23_EveryRequestAnswered ==
    req # NoRequest => resp.http \in {200, 400, 404}

(***************************************************************************)
(* The two document shapes (claim C24)                                     *)
(***************************************************************************)
\* the modules the queries walk: PROJECT.get("Modules") or []
CorpusModules == OrEmpty(PROJECT.Modules).items
DirectShape(d) == d.kind = "json" /\ d.root.isDict /\ d.root.Modules.tag = "list"
WrapperShape(d) ==
    /\ d.kind = "json" /\ d.root.isDict /\ d.root.Modules.tag = "absent"
    /\ d.root.Project.tag = "dict" /\ d.root.Project.Modules.tag = "list"

\* C24: after the load of a document with a top-level modules list the
\* corpus holds exactly those modules, in order; after the load of a wrapper
\* document whose project field holds the modules list the corpus holds
\* exactly those modules, in order.
C24_BothShapesLoad ==
    loaded =>
        /\ DirectShape(doc) => CorpusModules = doc.root.Modules.items
        /\ WrapperShape(doc) => CorpusModules = doc.root.Project.Modules.items

C24_Witness ==
    /\ loaded
    /\ WrapperShape(doc)
    /\ doc.root.Project.Modules.items = <<modM, modN>>
    /\ CorpusModules = <<modM, modN>>

(***************************************************************************)
(* Requests in flight at the same time (claim C25)                         *)
(***************************************************************************)
\* C25: with several requests in flight at once, in every interleaving a
\* request is answered exactly as it would be were it alone on the same
\* corpus, and until it is answered its client sees nothing: no result
\* built for another request, in whole or in part, reaches it.
C25_AnsweredAsIfAlone ==
    LET corpus == ReadInitialProject(doc)
    IN  /\ \A c \in Clients :
              IF conns[c].state = "answered"
              THEN conns[c].resp = AnswerTo(corpus, conns[c].req)
              ELSE conns[c].resp = NoResponse
        /\ handler.stage = "computed" =>
              handler.result = AnswerTo(corpus, conns[handler.client].req)

\* two requests that were in flight together, answered differently
C25_Witness ==
    /\ conns[1].state = "answered" /\ conns[2].state = "answered"
    /\ 2 \in conns[1].peers /\ 1 \in conns[2].peers
    /\ conns[1].req.op = "broad" /\ conns[1].resp.http = 200
    /\ conns[1].resp.result.hits # <<>>
    /\ conns[2].req.op = "lookup" /\ conns[2].resp.http = 200
    /\ conns[1].resp = AnswerTo(PROJECT, conns[1].req)
    /\ conns[2].resp = AnswerTo(PROJECT, conns[2].req)

(***************************************************************************)
(* The fields of a broad-search hit (claim C26)                            *)
(***************************************************************************)
\* a field as the scan reads it: a missing or null value is the empty
\* string, and surrounding whitespace does not count
Field(x, key) == Strip(x[key])

RECURSIVE FirstNonEmpty(_)
FirstNonEmpty(texts) ==
    IF texts = <<>> THEN <<>>
    ELSE IF Head(texts) # <<>> THEN Head(texts)
    ELSE FirstNonEmpty(Tail(texts))

\* the entity a visit stands for, and its canonical full name
EntityAt(P, v) ==
    IF v.kind = "module" THEN ModuleAt(P, v)
    ELSE IF v.kind = "type" THEN TypeAt(P, v)
    ELSE MemberAt(TypeAt(P, v), v)
CanonicalFullName(P, v) ==
    IF v.kind = "module" THEN Field(ModuleAt(P, v), "AssemblyFullName")
    ELSE Field(EntityAt(P, v), "FullName")

\* C26: in every hit of a broad search, fullName is the entity's canonical
\* full name when that is non-empty and the hit's name otherwise;
\* assemblyPath is the first non-empty of the owning module's assembly
\* path, module file path and file name, empty when all three are; and
\* signature is empty for module and type hits.
C26_HitFields ==
    BroadAnswered =>
        \A k \in 1..Len(resp.result.hits) :
            LET hit == resp.result.hits[k]
                v == resp.result.pos[k]
                mod == ModuleAt(PROJECT, v)
                full == CanonicalFullName(PROJECT, v)
            IN  /\ hit.kind = v.kind
                /\ hit.name = Field(EntityAt(PROJECT, v), "Name")
                /\ hit.fullName = IF full # <<>> THEN full ELSE hit.name
                /\ hit.assemblyPath =
                      FirstNonEmpty(<<Field(mod, "AssemblyPath"),
                                      Field(mod, "ModuleFilePath"),
                                      Field(mod, "FileName")>>)
                /\ hit.kind \in {"module", "type"} => hit.signature = <<>>

\* a type without a full name in a module that has a file name only
C26_Witness ==
    /\ BroadAnswered
    /\ \E k \in 1..Len(resp.result.hits) :
          LET hit == resp.result.hits[k]
              v == resp.result.pos[k]
          IN  /\ hit.kind = "type"
              /\ Field(TypeAt(PROJECT, v), "FullName") = <<>>
              /\ hit.fullName = hit.name /\ hit.name # <<>>
              /\ Field(ModuleAt(PROJECT, v), "AssemblyPath") = <<>>
              /\ Field(ModuleAt(PROJECT, v), "ModuleFilePath") = <<>>
              /\ hit.assemblyPath = <<"f">>

(***************************************************************************)
(* Which entities a broad search reports (claim C27)                       *)
(***************************************************************************)
\* the pattern matches one of the texts; a text that is not there (empty)
\* is not tried
MatchesOneOf(regex, texts) ==
    \E i \in 1..Len(texts) : texts[i] # <<>> /\ RegexSearch(regex, texts[i])

\* the test the specification gives for each kind of entity: the full name
\* (the name, for a module), else the name, else the signature
MatchesAsSpecified(P, regex, v) ==
    LET e == EntityAt(P, v)
    IN  IF v.kind = "module"
        THEN \/ RegexSearch(regex, Field(e, "Name"))
             \/ MatchesOneOf(regex, <<Field(e, "AssemblyFullName")>>)
        ELSE IF v.kind = "type"
        THEN \/ RegexSearch(regex, Field(e, "FullName"))
             \/ MatchesOneOf(regex, <<Field(e, "Name")>>)
        ELSE \/ RegexSearch(regex, Field(e, "FullName"))
             \/ MatchesOneOf(regex, <<Field(e, "Name"), Field(e, "Signature")>>)

C28_ReturnsForEveryTree ==
    paths.status # "none" => paths.status = "ok"

(***************************************************************************)
(* The chat backend always answers (claim C29)                             *)
(***************************************************************************)
\* C29: when main is over, on whatever path, it has written exactly one
\* response object with the fields AssistantMessage, SearchKeywords and
\* ExcludedModules to stdout: without a user message, in debug mode, after
\* a model call that succeeded or failed in any mode, and on request input
\* that is unreadable or malformed.
C29_OneResponsePerRequest ==
    chat.pc \in {"done", "crashed"} =>
        /\ Len(stdout) = 1
        /\ DOMAIN stdout[1] = {"AssistantMessage", "SearchKeywords", "ExcludedModules"}

(***************************************************************************)
(* The aggregated automation search (claim C30)                            *)
(***************************************************************************)
SearchReturned == search.pc = "returned"
\* a keyword for which a request is made: a string that is not blank
Queryable(kw) == kw.tag = "str" /\ Strip(kw.text) # <<>>
RawText(kw) == kw.text
TrimmedText(kw) == Strip(kw.text)
RecordsOf(items) ==
    LET isRecord(x) == x.isDict
    IN  SelectSeq(items, isRecord)
\* what the logged requests before keyword k brought, request by request:
\* the records of every answer that was a list, tagged by the keyword
\* (trimmed or as given)
TagOf(kw, trimmed) == IF trimmed THEN TrimmedText(kw) ELSE RawText(kw)
RECURSIVE Collected(_, _, _, _)
Collected(sent, kws, k, trimmed) ==
    IF sent = <<>> \/ Head(sent).k >= k THEN <<>>
    ELSE LET e == Head(sent)
             recs == IF e.answer.kind = "list" THEN RecordsOf(e.answer.items)
                     ELSE <<>>
         IN  [n \in 1..Len(recs) |-> [item |-> recs[n], _pattern |-> TagOf(kws[e.k], trimmed)]]
             \o Collected(Tail(sent), kws, k, trimmed)
FirstOf(s, n) == SubSeq(s, 1, IF n < Len(s) THEN n ELSE Len(s))

\* the claim with the total and the tag left open
SearchAsClaimed(total, trimmed) ==
    LET kws == search.keywords
        sent == search.sent
        all == Collected(sent, kws, Len(kws) + 1, trimmed)
    IN  /\ Len(search.results) <= total
        /\ \A n \in 1..Len(sent) : sent[n].had < search.max_total_results
        /\ \A n, p \in 1..Len(sent) : n < p => sent[n].k < sent[p].k
        /\ \A k \in 1..Len(kws) :
              Queryable(kws[k]) =>
                  \/ \E n \in 1..Len(sent) : sent[n].k = k
                  \/ Len(Collected(sent, kws, k, trimmed)) >= search.max_total_results
        /\ search.results = FirstOf(all, total)

\* C30 as stated: the function returns at most max_total_results hits, makes
\* no request once that total is reached, loses nothing and skips no later
\* keyword because a request failed, and returns the hits in keyword order,
\* each tagged with the keyword that produced it.
C30_BoundedTaggedHits ==
    SearchReturned => SearchAsClaimed(search.max_total_results, FALSE)

\* C30 amended: the function returns at most max(max_total_results, 0)
\* hits, makes no request once that total is reached, loses nothing and
\* skips no later keyword because a request failed, and returns the hits in
\* keyword order, each tagged with the keyword that produced it stripped of
\* surrounding whitespace (the pattern that was sent).
C30_BoundedHitsTaggedWithPattern ==
    SearchReturned =>
        SearchAsClaimed(IF search.max_total_results > 0
                        THEN search.max_total_results ELSE 0, TRUE)

\* a failed request, then a padded keyword whose answer fills the total,
\* and a last keyword that is never asked for
C30_Witness ==
    /\ SearchReturned
    /\ search.max_total_results = 2
    /\ Len(search.keywords) = 3 /\ \A k \in 1..3 : Queryable(search.keywords[k])
    /\ Len(search.sent) = 2
    /\ search.sent[1].answer.kind = "error"
    /\ Len(RecordsOf(search.sent[2].answer.items)) = 3
    /\ Len(search.results) = 2
    /\ search.keywords[2].text = <<" ", "B", " ">>
    /\ search.results[1]._pattern = <<"B">>

====
